---- MODULE Spec2Model ----
(***************************************************************************)
(* A model of the pandas-mcp-server code-execution engine                  *)
(* (core/execution.py, core/config.py).  Scripts are sequences of source   *)
(* lines, every line being a sequence of characters, so that the literal   *)
(* substring scan, str.split and str.strip act on the text itself.         *)
(* run_pandas_code is split into the steps at which another thread can be  *)
(* scheduled: sys.stdout is a process-wide variable.                       *)
(***************************************************************************)
EXTENDS Integers, Sequences, FiniteSets, TLC

\* ------------------------------------------------------------------ bounds
MaxLines == 2       \* lines per script in the sequential specification
MaxCalls == 2       \* calls of run_pandas_code per behaviour
NumThreads == 2     \* worker threads

Threads == 1..NumThreads

\* ------------------------------------------------------- text primitives
NL == "\n"
Whitespace == {" ", NL, "\t"}

\* str.__contains__: pat occurs in s as a contiguous substring
Contains(pat, s) ==
    \/ pat = <<>>
    \/ \E i \in 1..(Len(s) - Len(pat) + 1) :
          s[i] = pat[1] /\ SubSeq(s, i, i + Len(pat) - 1) = pat

RECURSIVE split(_, _)
\* str.split(sep) for a one-character separator
split(s, sep) ==
    IF \A i \in 1..Len(s) : s[i] # sep
    THEN <<s>>
    ELSE LET i == CHOOSE k \in 1..Len(s) :
                     s[k] = sep /\ \A j \in 1..(k - 1) : s[j] # sep
         IN  <<SubSeq(s, 1, i - 1)>> \o split(SubSeq(s, i + 1, Len(s)), sep)

RECURSIVE strip(_)
\* str.strip(): drop leading and trailing whitespace
strip(s) ==
    IF s = <<>> THEN s
    ELSE IF s[1] \in Whitespace THEN strip(Tail(s))
    ELSE IF s[Len(s)] \in Whitespace THEN strip(SubSeq(s, 1, Len(s) - 1))
    ELSE s

RECURSIVE join(_, _)
\* sep.join(lines)
join(lines, sep) ==
    IF lines = <<>> THEN <<>>
    ELSE IF Len(lines) = 1 THEN lines[1]
    ELSE lines[1] \o <<sep>> \o join(Tail(lines), sep)

\* ------------------------------------------------------------ core/config
DEFAULT_BLACKLIST ==
    << <<"o", "s", ".">>,
       <<"s", "y", "s", ".">>,
       <<"s", "u", "b", "p", "r", "o", "c", "e", "s", "s", ".">>,
       <<"o", "p", "e", "n", "(">>,
       <<"e", "x", "e", "c", "(">>,
       <<"e", "v", "a", "l", "(">>,
       <<"i", "m", "p", "o", "r", "t", " ", "o", "s">>,
       <<"i", "m", "p", "o", "r", "t", " ", "s", "y", "s">>,
       <<"d", "o", "c", "u", "m", "e", "n", "t", ".">>,
       <<"w", "i", "n", "d", "o", "w", ".">>,
       <<"X", "M", "L", "H", "t", "t", "p", "R", "e", "q", "u", "e", "s", "t">>,
       <<"f", "e", "t", "c", "h", "(">>,
       <<"e", "v", "a", "l", "(">>,
       <<"F", "u", "n", "c", "t", "i", "o", "n", "(">>,
       <<"s", "c", "r", "i", "p", "t">>,
       <<"j", "a", "v", "a", "s", "c", "r", "i", "p", "t", ":">> >>

RECURSIVE StripNonEmpty(_)
\* [item.strip() for item in items if item.strip()]
StripNonEmpty(items) ==
    IF items = <<>> THEN <<>>
    ELSE LET it == strip(items[1])
         IN  (IF it = <<>> THEN <<>> ELSE <<it>>) \o StripNonEmpty(Tail(items))

\* get_env_list: value is the variable's text, <<>> when unset or empty
get_env_list(value, default) ==
    IF value = <<>> THEN default
    ELSE StripNonEmpty(split(value, ","))

\* str.lower()
LowerChar(c) ==
    CASE c = "A" -> "a" [] c = "B" -> "b" [] c = "C" -> "c" [] c = "D" -> "d"
      [] c = "E" -> "e" [] c = "F" -> "f" [] c = "G" -> "g" [] c = "H" -> "h"
      [] c = "I" -> "i" [] c = "J" -> "j" [] c = "K" -> "k" [] c = "L" -> "l"
      [] c = "M" -> "m" [] c = "N" -> "n" [] c = "O" -> "o" [] c = "P" -> "p"
      [] c = "Q" -> "q" [] c = "R" -> "r" [] c = "S" -> "s" [] c = "T" -> "t"
      [] c = "U" -> "u" [] c = "V" -> "v" [] c = "W" -> "w" [] c = "X" -> "x"
      [] c = "Y" -> "y" [] c = "Z" -> "z"
      [] OTHER -> c

lower(s) == [i \in 1..Len(s) |-> LowerChar(s[i])]

\* get_env_bool: value is the variable's text, <<>> when unset
get_env_bool(value, default) ==
    LET v == lower(value)
    IN  IF v \in { <<"t", "r", "u", "e">>, <<"1">>, <<"y", "e", "s">>, <<"o", "n">> }
        THEN TRUE
        ELSE IF v \in { <<"f", "a", "l", "s", "e">>, <<"0">>, <<"n", "o">>,
                        <<"o", "f", "f">> }
        THEN FALSE
        ELSE default

\* values of PANDAS_MCP_ENABLE_CODE_EXECUTION the process may be started with
FlagEnvValues ==
    { <<>>,                                  \* unset
      <<"F", "a", "l", "s", "e">>,           \* "False"
      <<"0">>,
      <<"o", "n">>,
      <<"m", "a", "y", "b", "e">> }

\* values of PANDAS_MCP_BLACKLIST the process may be started with
EnvValues ==
    { <<>>,                                  \* unset
      <<"x", "=">>,                          \* "x="
      <<" ", ",", " ">> }                    \* " , "

\* ------------------------------------------------------- core/validation
\* the limit of validate_pandas_code
MAX_CODE_LENGTH == 100000

\* One element of a text that stands for a run of MAX_CODE_LENGTH
\* characters "#": no pattern, separator or bracket is part of it.
LongRun == "#*100000"

CharCount(c) == IF c = LongRun THEN MAX_CODE_LENGTH ELSE 1

RECURSIVE len(_)
\* len(code)
len(s) == IF s = <<>> THEN 0 ELSE CharCount(s[1]) + len(Tail(s))

\* ------------------------------------------------------------- the scripts
\* The source lines a script is made of.  Every line is one statement.
Stmts ==
    { "assign_x", "assign_result", "assign_none", "print", "div_zero",
      "sys_exit", "read_x", "open_paren", "import_os", "os_attr", "eval",
      "blank", "bad_str", "long_comment", "df_big", "df_ceiling", "series",
      "assign_dict", "clear_blacklist", "import_hack" }

StmtText(st) ==
    CASE st = "assign_x"      -> <<"x", "=", "1">>
      [] st = "assign_result" -> <<"r", "e", "s", "u", "l", "t", "=", "1">>
      [] st = "assign_none"   -> <<"r", "e", "s", "u", "l", "t", "=", "N", "o", "n", "e">>
      [] st = "print"         -> <<"p", "r", "i", "n", "t", "(", "1", ")">>
      [] st = "div_zero"      -> <<"1", "/", "0">>
      [] st = "sys_exit"      -> <<"r", "a", "i", "s", "e", " ", "S", "y", "s", "t", "e", "m", "E", "x", "i", "t">>
      [] st = "read_x"        -> <<"y", "=", "x">>
      [] st = "open_paren"    -> <<"(", "1", "+">>
      [] st = "import_os"     -> <<"i", "m", "p", "o", "r", "t", " ", "o", "s">>
      [] st = "os_attr"       -> <<"o", "s", ".", "s", "e", "p">>
      [] st = "eval"          -> <<"e", "v", "a", "l", "(", "'", "1", "'", ")">>
      [] st = "blank"         -> <<" ", " ">>
      [] st = "long_comment"  -> <<LongRun>>
      \* result=pd.DataFrame({'a':range(20000000)})
      [] st = "df_big"        -> <<"r", "e", "s", "u", "l", "t", "=", "p", "d", ".", "D", "a", "t", "a", "F", "r", "a", "m", "e", "(", "{", "'", "a", "'", ":", "r", "a", "n", "g", "e", "(", "2", "0", "0", "0", "0", "0", "0", "0", ")", "}", ")">>
      \* result=pd.DataFrame({'a':range(12499984)})
      [] st = "df_ceiling"    -> <<"r", "e", "s", "u", "l", "t", "=", "p", "d", ".", "D", "a", "t", "a", "F", "r", "a", "m", "e", "(", "{", "'", "a", "'", ":", "r", "a", "n", "g", "e", "(", "1", "2", "4", "9", "9", "9", "8", "4", ")", "}", ")">>
      \* result={'a':1}
      [] st = "assign_dict"   -> <<"r", "e", "s", "u", "l", "t", "=", "{", "'", "a", "'", ":", "1", "}">>
      \* from core.config import BLACKLIST;BLACKLIST.clear()
      [] st = "clear_blacklist" -> <<"f", "r", "o", "m", " ", "c", "o", "r", "e", ".", "c", "o", "n", "f", "i", "g", " ", "i", "m", "p", "o", "r", "t", " ", "B", "L", "A", "C", "K", "L", "I", "S", "T", ";", "B", "L", "A", "C", "K", "L", "I", "S", "T", ".", "c", "l", "e", "a", "r", "(", ")">>
      \* result=__import__('os').system('echo test')
      [] st = "import_hack"   -> <<"r", "e", "s", "u", "l", "t", "=", "_", "_", "i", "m", "p", "o", "r", "t", "_", "_", "(", "'", "o", "s", "'", ")", ".", "s", "y", "s", "t", "e", "m", "(", "'", "e", "c", "h", "o", " ", "t", "e", "s", "t", "'", ")">>
      \* result=pd.Series(range(3))
      [] st = "series"        -> <<"r", "e", "s", "u", "l", "t", "=", "p", "d", ".", "S", "e", "r", "i", "e", "s", "(", "r", "a", "n", "g", "e", "(", "3", ")", ")">>
      [] st = "bad_str"       -> <<"r", "e", "s", "u", "l", "t", "=", "t", "y", "p", "e", "(", "'", "B", "'", ",", "(", ")", ",", "{", "'", "_", "_", "s", "t", "r", "_", "_", "'", ":", "l", "a", "m", "b", "d", "a", " ", "s", ":", "1", "/", "0", "}", ")", "(", ")">>

\* sequences of statements of length 0..n over the set S
SeqsUpTo(S, n) == UNION { [1..k -> S] : k \in 0..n }

Scripts == SeqsUpTo(Stmts, MaxLines)

RECURSIVE Texts(_)
Texts(script) ==
    IF script = <<>> THEN <<>>
    ELSE <<StmtText(script[1])>> \o Texts(Tail(script))

\* the text handed to run_pandas_code: the lines joined by newlines
CodeOf(script) == join(Texts(script), NL)

RECURSIVE ParenDepth(_, _)
\* nesting depth after reading s from depth d; -1 once a ")" has no partner
ParenDepth(s, d) ==
    IF d < 0 \/ s = <<>> THEN d
    ELSE ParenDepth(Tail(s), IF s[1] = "(" THEN d + 1
                             ELSE IF s[1] = ")" THEN d - 1 ELSE d)

\* a syntax check that reads the first line only
compileFirstLine(code) ==
    IF ParenDepth(split(code, NL)[1], 0) = 0 THEN "ok" ELSE "SyntaxError"

\* compile(code, '<string>', 'exec'): "ok", or the SyntaxError it raises
compile(code) ==
    IF ParenDepth(code, 0) = 0 THEN "ok" ELSE "SyntaxError"

\* ---------------------------------------------------------- the namespace
\* local_vars is a dict: a function whose domain is the set of bound names
SeededVars ==
    [n \in {"pd", "read_csv_chunked", "read_excel_chunked"} |->
        IF n = "pd" THEN "module_pd" ELSE "lambda"]

Bind(lv, name, val) ==
    [n \in (DOMAIN lv) \cup {name} |-> IF n = name THEN val ELSE lv[n]]

\* dict.get(name, None)
Get(lv, name) == IF name \in DOMAIN lv THEN lv[name] ELSE "None"

\* One statement run by exec(code, {}, local_vars): the namespace after it,
\* whether it wrote to sys.stdout, and the exception it raised ("none",
\* an Exception subclass, or SystemExit which is a BaseException only).
ExecStmt(st, lv) ==
    CASE st = "assign_x"      -> [lv |-> Bind(lv, "x", "int"), out |-> FALSE, exc |-> "none"]
      [] st = "assign_result" -> [lv |-> Bind(lv, "result", "int"), out |-> FALSE, exc |-> "none"]
      [] st = "assign_none"   -> [lv |-> Bind(lv, "result", "None"), out |-> FALSE, exc |-> "none"]
      [] st = "bad_str"       -> [lv |-> Bind(lv, "result", "bad_str"), out |-> FALSE, exc |-> "none"]
      [] st = "print"         -> [lv |-> lv, out |-> TRUE, exc |-> "none"]
      [] st = "div_zero"      -> [lv |-> lv, out |-> FALSE, exc |-> "ZeroDivisionError"]
      [] st = "sys_exit"      -> [lv |-> lv, out |-> FALSE, exc |-> "SystemExit"]
      [] st = "read_x"        -> IF "x" \in DOMAIN lv
                                 THEN [lv |-> Bind(lv, "y", lv["x"]), out |-> FALSE, exc |-> "none"]
                                 ELSE [lv |-> lv, out |-> FALSE, exc |-> "NameError"]
      [] st = "import_os"     -> [lv |-> Bind(lv, "os", "module_os"), out |-> FALSE, exc |-> "none"]
      [] st = "os_attr"       -> IF "os" \in DOMAIN lv
                                 THEN [lv |-> lv, out |-> FALSE, exc |-> "none"]
                                 ELSE [lv |-> lv, out |-> FALSE, exc |-> "NameError"]
      [] st = "eval"          -> [lv |-> lv, out |-> FALSE, exc |-> "none"]
      [] st = "blank"         -> [lv |-> lv, out |-> FALSE, exc |-> "none"]
      [] st = "long_comment"  -> [lv |-> lv, out |-> FALSE, exc |-> "none"]
      [] st = "assign_dict"   -> [lv |-> Bind(lv, "result", "dict"), out |-> FALSE, exc |-> "none"]
      [] st = "clear_blacklist" ->
            [lv |-> Bind(lv, "BLACKLIST", "list"), out |-> FALSE, exc |-> "none"]
      \* os.system returns the exit status of the command it ran
      [] st = "import_hack"   -> [lv |-> Bind(lv, "result", "status"), out |-> FALSE, exc |-> "none"]
      [] st \in {"df_big", "df_ceiling", "series"} ->
                                 IF "pd" \in DOMAIN lv
                                 THEN [lv |-> Bind(lv, "result", st), out |-> FALSE, exc |-> "none"]
                                 ELSE [lv |-> lv, out |-> FALSE, exc |-> "NameError"]
      \* exec compiles what it is given: a malformed line raises SyntaxError
      [] st = "open_paren"    -> [lv |-> lv, out |-> FALSE, exc |-> "SyntaxError"]

\* core.config.BLACKLIST after the statement ran: the name a script imports
\* from core.config is bound to the list run_pandas_code scans with
BlacklistAfter(st, bl) == IF st = "clear_blacklist" THEN <<>> ELSE bl

\* lines that hold no statement
NoStatement == {"blank", "long_comment"}

\* validate_pandas_code with a scan for the default patterns added
validate_pandas_code_scanning(code) ==
    IF code = <<>>
    THEN [valid |-> FALSE, error |-> <<"Code cannot be empty">>]
    ELSE IF len(code) > MAX_CODE_LENGTH
    THEN [valid |-> FALSE, error |-> <<"Code exceeds maximum length of 100KB">>]
    ELSE IF compile(code) = "SyntaxError"
    THEN [valid |-> FALSE, error |-> <<"Syntax error in code: ", compile(code)>>]
    ELSE IF \E i \in 1..Len(DEFAULT_BLACKLIST) : Contains(DEFAULT_BLACKLIST[i], code)
    THEN [valid |-> FALSE, error |-> <<"Forbidden operation detected">>]
    ELSE [valid |-> TRUE]

\* validate_pandas_code with the syntax check compiling in 'eval' mode,
\* which takes an expression only
validate_pandas_code_eval_mode(code) ==
    IF code = <<>>
    THEN [valid |-> FALSE, error |-> <<"Code cannot be empty">>]
    ELSE IF len(code) > MAX_CODE_LENGTH
    THEN [valid |-> FALSE, error |-> <<"Code exceeds maximum length of 100KB">>]
    ELSE IF compile(code) = "SyntaxError" \/ Contains(<<"=">>, code)
    THEN [valid |-> FALSE, error |-> <<"Syntax error in code: ", "SyntaxError">>]
    ELSE [valid |-> TRUE]

\* validate_pandas_code (code is always a str here)
validate_pandas_code(code) ==
    IF code = <<>>
    THEN [valid |-> FALSE, error |-> <<"Code cannot be empty">>]
    ELSE IF len(code) > MAX_CODE_LENGTH
    THEN [valid |-> FALSE, error |-> <<"Code exceeds maximum length of 100KB">>]
    ELSE IF compile(code) = "SyntaxError"
    THEN [valid |-> FALSE, error |-> <<"Syntax error in code: ", compile(code)>>]
    ELSE [valid |-> TRUE]

\* except Exception: catches every exception class but the BaseException-only
\* ones (SystemExit, KeyboardInterrupt, GeneratorExit)
IsException(exc) == exc \in {"ZeroDivisionError", "NameError", "SyntaxError"}

\* ------------------------------------------------------------------ state
VARIABLES
    BLACKLIST,      \* core/config.py BLACKLIST, loaded at import
    sys_stdout,     \* sys.stdout: 0 is the process's own stream, c > 0 the
                    \* StringIO created by call number c
    streams,        \* what was written to each stream: the numbers of the
                    \* calls whose scripts wrote, in order
    ncalls,         \* calls started so far
    pc,             \* where each thread stands in run_pandas_code
    script,         \* the script the thread's call was given
    stdout_capture, \* the call's StringIO (its call number)
    old_stdout,     \* the call's saved sys.stdout
    local_vars,     \* the call's namespace
    ip,             \* index of the next statement exec runs
    ran,            \* statements of the script run in this call
    pending,        \* the return value or exception held while finally runs
    outcome,        \* "none", "returned" or "raised"
    response,       \* the value returned to the caller, or the exception
    ENABLE_CODE_EXECUTION,  \* core/config.py feature flag, loaded at import
    validation,     \* what validate_pandas_code returned for the call's script
    last_x,         \* whether the namespace of the last call that ended,
                    \* now discarded, held a binding of x
    os_system,      \* whether the call's script has had os.system run a command
    tool_args,      \* the arguments of the call to one of the other functions
    tool_result,    \* what that call returned, Null before it
    ENABLE_CHART_GENERATION,  \* core/config.py feature flag, loaded at import
    cli             \* cli.py interactive_mode: where the process stands, the
                    \* choices entered and the error lines printed; Null
                    \* in a process that does not run the menu

vars == << BLACKLIST, sys_stdout, streams, ncalls, pc, script, stdout_capture,
           old_stdout, local_vars, ip, ran, pending, outcome, response,
           ENABLE_CODE_EXECUTION, validation, last_x, os_system,
           tool_args, tool_result, ENABLE_CHART_GENERATION, cli >>

\* the variables run_pandas_code has no part in
otherVars == << tool_args, tool_result, ENABLE_CHART_GENERATION, cli >>

Null == [null |-> TRUE]
NoVars == [n \in {} |-> "None"]

\* ------------------------------------------------------- get_forbidden_reason
get_forbidden_reason(forbidden_op) ==
    CASE forbidden_op = <<"o", "s", ".">> ->
            "Operating system access can compromise file system security"
      [] forbidden_op = <<"s", "y", "s", ".">> ->
            "System module access can allow unsafe system operations"
      [] forbidden_op = <<"s", "u", "b", "p", "r", "o", "c", "e", "s", "s", ".">> ->
            "Subprocess execution can run arbitrary commands"
      [] forbidden_op = <<"o", "p", "e", "n", "(">> ->
            "Direct file access bypasses pandas security controls"
      [] forbidden_op = <<"e", "x", "e", "c", "(">> ->
            "Dynamic code execution can run arbitrary code"
      [] forbidden_op = <<"e", "v", "a", "l", "(">> ->
            "Dynamic evaluation can execute arbitrary expressions"
      [] forbidden_op = <<"i", "m", "p", "o", "r", "t", " ", "o", "s">> ->
            "Direct OS module import bypasses security controls"
      [] forbidden_op = <<"i", "m", "p", "o", "r", "t", " ", "s", "y", "s">> ->
            "Direct system module import bypasses security controls"
      [] forbidden_op = <<"d", "o", "c", "u", "m", "e", "n", "t", ".">> ->
            "DOM access is not relevant for pandas data analysis"
      [] forbidden_op = <<"w", "i", "n", "d", "o", "w", ".">> ->
            "Browser window access is not relevant for pandas data analysis"
      [] forbidden_op = <<"X", "M", "L", "H", "t", "t", "p", "R", "e", "q", "u", "e", "s", "t">> ->
            "Network requests are not relevant for pandas data analysis"
      [] forbidden_op = <<"f", "e", "t", "c", "h", "(">> ->
            "Network requests are not relevant for pandas data analysis"
      [] forbidden_op = <<"F", "u", "n", "c", "t", "i", "o", "n", "(">> ->
            "Dynamic function creation can execute arbitrary code"
      [] forbidden_op = <<"s", "c", "r", "i", "p", "t">> ->
            "Script tags are not relevant for pandas data analysis"
      [] forbidden_op = <<"j", "a", "v", "a", "s", "c", "r", "i", "p", "t", ":">> ->
            "JavaScript execution is not relevant for pandas data analysis"
      [] OTHER -> "This operation is forbidden for security reasons"

\* ------------------------------------------- run_pandas_code: security scan
\* for forbidden in BLACKLIST: if forbidden in code: ... return
\* a scan that is skipped when the code does not compile
FirstForbiddenIfCompiles(code, bl) ==
    IF compile(code) = "ok" /\ \E i \in 1..Len(bl) : Contains(bl[i], code)
    THEN CHOOSE i \in 1..Len(bl) :
            /\ Contains(bl[i], code)
            /\ \A j \in 1..(i - 1) : ~Contains(bl[j], code)
    ELSE 0

\* a scan that keeps the last entry of bl that occurs in code
LastForbidden(code, bl) ==
    IF \E i \in 1..Len(bl) : Contains(bl[i], code)
    THEN CHOOSE i \in 1..Len(bl) :
            /\ Contains(bl[i], code)
            /\ \A j \in (i + 1)..Len(bl) : ~Contains(bl[j], code)
    ELSE 0

\* the index of the first entry of bl that occurs in code, 0 when none does
FirstForbidden(code, bl) ==
    IF \E i \in 1..Len(bl) : Contains(bl[i], code)
    THEN CHOOSE i \in 1..Len(bl) :
            /\ Contains(bl[i], code)
            /\ \A j \in 1..(i - 1) : ~Contains(bl[j], code)
    ELSE 0

\* enumerate(lines, 1)
Enumerate(lines) == [i \in 1..Len(lines) |-> [line |-> i, text |-> lines[i]]]

\* forbidden_lines numbered by enumerate(lines), from 0
ForbiddenLinesFromZero(code, forbidden) ==
    LET hit == SelectSeq(Enumerate(split(code, NL)),
                         LAMBDA e : Contains(forbidden, e.text))
    IN  [k \in 1..Len(hit) |-> [line |-> hit[k].line - 1, text |-> strip(hit[k].text)]]

\* forbidden_lines: "Line {i}: {line.strip()}" for every line holding forbidden
ForbiddenLines(code, forbidden) ==
    LET hit == SelectSeq(Enumerate(split(code, NL)),
                         LAMBDA e : Contains(forbidden, e.text))
    IN  [k \in 1..Len(hit) |-> [line |-> hit[k].line, text |-> strip(hit[k].text)]]

\* the security response listing the matched pattern only
SecurityResponseMatchedOnly(code, forbidden, bl) ==
    [ content    |-> <<>>,
      isError    |-> TRUE,
      error_type |-> "SECURITY_VIOLATION",
      message    |-> <<"Forbidden operation detected: ", forbidden>>,
      details    |-> [ forbidden_operation      |-> forbidden,
                       reason                   |-> get_forbidden_reason(forbidden),
                       locations                |-> ForbiddenLines(code, forbidden),
                       all_forbidden_operations |-> <<forbidden>> ],
      solution   |-> <<"Remove '", forbidden,
                       "' from your code. Use pandas operations instead.">> ]

SecurityResponse(code, forbidden, bl) ==
    [ content    |-> <<>>,
      isError    |-> TRUE,
      error_type |-> "SECURITY_VIOLATION",
      message    |-> <<"Forbidden operation detected: ", forbidden>>,
      details    |-> [ forbidden_operation      |-> forbidden,
                       reason                   |-> get_forbidden_reason(forbidden),
                       locations                |-> ForbiddenLines(code, forbidden),
                       all_forbidden_operations |-> bl ],
      solution   |-> <<"Remove '", forbidden,
                       "' from your code. Use pandas operations instead.">> ]

\* ------------------------------------------- run_pandas_code: the responses
CompileErrorResponse(exc, output) ==
    [ content |-> <<>>,
      error   |-> [ isError   |-> TRUE,
                    message   |-> <<"Code error: ", exc>>,
                    traceback |-> exc,
                    output    |-> output ] ]

ExecErrorResponse(exc, output) ==
    [ content |-> <<>>,
      error   |-> [ isError   |-> TRUE,
                    message   |-> <<exc>>,
                    traceback |-> exc,
                    output    |-> output ] ]

NoResultResponse(output) ==
    [ content |-> <<>>,
      isError |-> TRUE,
      message |-> "No 'result' variable found in code",
      output  |-> output ]

OuterErrorResponse(exc, output) ==
    [ content   |-> <<>>,
      isError   |-> TRUE,
      message   |-> <<exc>>,
      traceback |-> exc,
      output    |-> output ]

\* the ceiling of line 157, in bytes
MEMORY_CEILING == 100000000

\* the rows kept by result.head(100)
HEAD_ROWS == 100

\* rows of the one-column frames and of the series the scripts build
BigRows == 20000000
CeilingRows == 12499984
SeriesRows == 3

\* bytes of an int64 value and of a RangeIndex
ValueBytes == 8
IndexBytes == 128

IsDataFrame(val) == val \in {"df_big", "df_ceiling"}
IsSeries(val) == val = "series"

RowsOf(val) ==
    CASE val = "df_big"     -> BigRows
      [] val = "df_ceiling" -> CeilingRows
      [] val = "series"     -> SeriesRows

\* DataFrame.memory_usage(deep=True).sum(): the column and the index
memory_usage(val) == ValueBytes * RowsOf(val) + IndexBytes

\* the number of rows of result.head(n)
head(rows, n) == IF rows < n THEN rows ELSE n

\* result.to_dict(orient='records'): a list of rows, not keyed by column
to_dict_records(rows) == [records |-> rows]

\* result.to_dict() of a one-column frame: one entry per row under 'a'
to_dict(rows) == [a |-> rows]

SuccessResponse(content) ==
    [ content |-> <<content>>, isError |-> FALSE ]

\* str(result)
Str(val) ==
    CASE val = "int" -> <<"1">>
      [] val = "status" -> <<"0">>
      [] OTHER       -> <<"?">>

\* the same without the "result is None" test of line 145
CollectNoNoneTest(lv, output) ==
    LET kept   == [n \in (DOMAIN lv) \cap {"result", "pd"} |-> lv[n]]
        result == Get(kept, "result")
    IN  IF result = "bad_str"
        THEN [kept |-> kept, exc |-> "ZeroDivisionError", value |-> Null]
        ELSE IF IsSeries(result)
        THEN [kept |-> kept, exc |-> "AttributeError", value |-> Null]
        ELSE IF IsDataFrame(result)
        THEN [kept |-> kept, exc |-> "none", value |->
                 SuccessResponse(to_dict(IF memory_usage(result) > MEMORY_CEILING
                                         THEN head(RowsOf(result), HEAD_ROWS)
                                         ELSE RowsOf(result)))]
        ELSE IF result = "dict"
        THEN [kept |-> kept, exc |-> "none", value |-> SuccessResponse(result)]
        ELSE [kept |-> kept, exc |-> "none", value |-> SuccessResponse(Str(result))]

\* lines 136-173: drop the intermediate variables, look result up, format it.
\* The value returned, or the exception raised inside the outer try.
Collect(lv, output) ==
    LET kept   == [n \in (DOMAIN lv) \cap {"result", "pd"} |-> lv[n]]
        result == Get(kept, "result")
    IN  IF result = "bad_str"
        THEN [kept |-> kept, exc |-> "ZeroDivisionError", value |-> Null]
        ELSE IF result = "None"
        THEN [kept |-> kept, exc |-> "none", value |-> NoResultResponse(output)]
        ELSE IF IsSeries(result)
        \* Series.memory_usage returns an int, which has no sum()
        THEN [kept |-> kept, exc |-> "AttributeError", value |-> Null]
        ELSE IF IsDataFrame(result)
        THEN [kept |-> kept, exc |-> "none", value |->
                 SuccessResponse(to_dict(IF memory_usage(result) > MEMORY_CEILING
                                         THEN head(RowsOf(result), HEAD_ROWS)
                                         ELSE RowsOf(result)))]
        ELSE IF result = "dict"
        THEN [kept |-> kept, exc |-> "none", value |-> SuccessResponse(result)]
        ELSE [kept |-> kept, exc |-> "none", value |-> SuccessResponse(Str(result))]

\* ------------------------------------------------------------------- Init
IdleThreads ==
    /\ pc = [t \in Threads |-> "idle"]
    /\ script = [t \in Threads |-> <<>>]
    /\ stdout_capture = [t \in Threads |-> 0]
    /\ old_stdout = [t \in Threads |-> 0]
    /\ local_vars = [t \in Threads |-> NoVars]
    /\ ip = [t \in Threads |-> 0]
    /\ ran = [t \in Threads |-> 0]
    /\ pending = [t \in Threads |-> Null]
    /\ outcome = [t \in Threads |-> "none"]
    /\ response = [t \in Threads |-> Null]
    /\ validation = [t \in Threads |-> Null]
    /\ last_x = FALSE
    /\ os_system = [t \in Threads |-> FALSE]

\* no call to another function of the package is under way
NoOtherCall ==
    /\ tool_args = Null
    /\ tool_result = Null
    /\ ENABLE_CHART_GENERATION = get_env_bool(<<>>, TRUE)
    /\ cli = Null

\* the process after the modules are imported, for every configured value
\* of PANDAS_MCP_BLACKLIST
Init ==
    /\ BLACKLIST \in { get_env_list(v, DEFAULT_BLACKLIST) : v \in EnvValues }
    /\ ENABLE_CODE_EXECUTION = get_env_bool(<<>>, TRUE)
    /\ sys_stdout = 0
    /\ streams = [c \in 0..MaxCalls |-> <<>>]
    /\ ncalls = 0
    /\ IdleThreads
    /\ NoOtherCall

\* the process started without PANDAS_MCP_BLACKLIST
InitDefault ==
    /\ BLACKLIST = get_env_list(<<>>, DEFAULT_BLACKLIST)
    /\ ENABLE_CODE_EXECUTION = get_env_bool(<<>>, TRUE)
    /\ sys_stdout = 0
    /\ streams = [c \in 0..MaxCalls |-> <<>>]
    /\ ncalls = 0
    /\ IdleThreads
    /\ NoOtherCall

\* the process started with any value of PANDAS_MCP_ENABLE_CODE_EXECUTION
InitFlags ==
    /\ BLACKLIST = get_env_list(<<>>, DEFAULT_BLACKLIST)
    /\ ENABLE_CODE_EXECUTION \in { get_env_bool(v, TRUE) : v \in FlagEnvValues }
    /\ sys_stdout = 0
    /\ streams = [c \in 0..MaxCalls |-> <<>>]
    /\ ncalls = 0
    /\ IdleThreads
    /\ NoOtherCall

\* ---------------------------------------------------------------- actions
\* run_pandas_code entered with the namespace of the call before it
CallSharedNamespace(t, sc) ==
    /\ pc[t] = "idle"
    /\ ncalls < MaxCalls
    /\ ncalls' = ncalls + 1
    /\ script' = [script EXCEPT ![t] = sc]
    /\ ip' = [ip EXCEPT ![t] = 0]
    /\ ran' = [ran EXCEPT ![t] = 0]
    /\ pending' = [pending EXCEPT ![t] = Null]
    /\ old_stdout' = [old_stdout EXCEPT ![t] = 0]
    /\ LET code == CodeOf(sc)
           i    == FirstForbidden(code, BLACKLIST)
       IN  IF i # 0
           THEN /\ response' = [response EXCEPT ![t] =
                                   SecurityResponse(code, BLACKLIST[i], BLACKLIST)]
                /\ outcome' = [outcome EXCEPT ![t] = "returned"]
                /\ pc' = [pc EXCEPT ![t] = "done"]
                /\ local_vars' = [local_vars EXCEPT ![t] = NoVars]
                /\ stdout_capture' = [stdout_capture EXCEPT ![t] = 0]
           ELSE /\ response' = [response EXCEPT ![t] = Null]
                /\ outcome' = [outcome EXCEPT ![t] = "none"]
                /\ pc' = [pc EXCEPT ![t] = "save"]
                /\ local_vars' = [local_vars EXCEPT ![t] =
                                     IF last_x THEN Bind(SeededVars, "x", "int")
                                     ELSE SeededVars]
                /\ stdout_capture' = [stdout_capture EXCEPT ![t] = ncalls + 1]
    /\ UNCHANGED << otherVars, os_system, BLACKLIST, ENABLE_CODE_EXECUTION, last_x, validation,
                    sys_stdout, streams >>

\* run_pandas_code(code) is entered: the security scan (lines 65-93), then
\* the namespace and the capture buffer are created (lines 96-101)
Call(t, sc) ==
    /\ pc[t] = "idle"
    /\ ncalls < MaxCalls
    /\ ncalls' = ncalls + 1
    /\ script' = [script EXCEPT ![t] = sc]
    /\ ip' = [ip EXCEPT ![t] = 0]
    /\ ran' = [ran EXCEPT ![t] = 0]
    /\ pending' = [pending EXCEPT ![t] = Null]
    /\ old_stdout' = [old_stdout EXCEPT ![t] = 0]
    /\ LET code == CodeOf(sc)
           i    == FirstForbidden(code, BLACKLIST)
       IN  IF i # 0
           THEN /\ response' = [response EXCEPT ![t] =
                                   SecurityResponse(code, BLACKLIST[i], BLACKLIST)]
                /\ outcome' = [outcome EXCEPT ![t] = "returned"]
                /\ pc' = [pc EXCEPT ![t] = "done"]
                /\ local_vars' = [local_vars EXCEPT ![t] = NoVars]
                /\ stdout_capture' = [stdout_capture EXCEPT ![t] = 0]
           ELSE /\ response' = [response EXCEPT ![t] = Null]
                /\ outcome' = [outcome EXCEPT ![t] = "none"]
                /\ pc' = [pc EXCEPT ![t] = "save"]
                /\ local_vars' = [local_vars EXCEPT ![t] = SeededVars]
                /\ stdout_capture' = [stdout_capture EXCEPT ![t] = ncalls + 1]
    /\ UNCHANGED << otherVars, os_system, BLACKLIST, ENABLE_CODE_EXECUTION, last_x, validation, sys_stdout, streams >>

\* old_stdout = sys.stdout (line 102)
SaveStdout(t) ==
    /\ pc[t] = "save"
    /\ old_stdout' = [old_stdout EXCEPT ![t] = sys_stdout]
    /\ pc' = [pc EXCEPT ![t] = "redirect"]
    /\ UNCHANGED << otherVars, os_system, BLACKLIST, ENABLE_CODE_EXECUTION, last_x, validation, sys_stdout, streams, ncalls, script,
                    stdout_capture, local_vars, ip, ran, pending, outcome,
                    response >>

\* sys.stdout = stdout_capture (line 103)
Redirect(t) ==
    /\ pc[t] = "redirect"
    /\ sys_stdout' = stdout_capture[t]
    /\ pc' = [pc EXCEPT ![t] = "compile"]
    /\ UNCHANGED << otherVars, os_system, BLACKLIST, ENABLE_CODE_EXECUTION, last_x, validation, streams, ncalls, script, stdout_capture,
                    old_stdout, local_vars, ip, ran, pending, outcome,
                    response >>

\* the syntax check (lines 107-119)
Compile(t) ==
    /\ pc[t] = "compile"
    /\ LET c == compile(CodeOf(script[t]))
       IN  IF c # "ok" /\ IsException(c)
           THEN /\ pending' = [pending EXCEPT ![t] =
                      [kind |-> "return",
                       value |-> CompileErrorResponse(c, streams[stdout_capture[t]])]]
                /\ pc' = [pc EXCEPT ![t] = "finally"]
                /\ ip' = ip
           ELSE /\ pending' = pending
                /\ pc' = [pc EXCEPT ![t] = "exec"]
                /\ ip' = [ip EXCEPT ![t] = 1]
    /\ UNCHANGED << otherVars, os_system, BLACKLIST, ENABLE_CODE_EXECUTION, last_x, validation, sys_stdout, streams, ncalls, script,
                    stdout_capture, old_stdout, local_vars, ran, outcome,
                    response >>

\* exec(code, {}, local_vars) runs its next statement (lines 122-134)
Exec(t) ==
    /\ pc[t] = "exec"
    /\ ip[t] <= Len(script[t])
    /\ LET r == ExecStmt(script[t][ip[t]], local_vars[t])
           written == IF r.out
                      THEN [streams EXCEPT ![sys_stdout] = Append(@, stdout_capture[t])]
                      ELSE streams
       IN  /\ streams' = written
           /\ local_vars' = [local_vars EXCEPT ![t] = r.lv]
           /\ ran' = [ran EXCEPT ![t] =
                         IF script[t][ip[t]] \in NoStatement THEN @ ELSE @ + 1]
           /\ IF r.exc = "none"
              THEN /\ ip' = [ip EXCEPT ![t] = @ + 1]
                   /\ UNCHANGED << pc, pending >>
              ELSE /\ ip' = ip
                   /\ pc' = [pc EXCEPT ![t] = "finally"]
                   /\ pending' = [pending EXCEPT ![t] =
                         IF IsException(r.exc)
                         THEN [kind |-> "return",
                               value |-> ExecErrorResponse(r.exc, written[stdout_capture[t]])]
                         ELSE [kind |-> "raise", value |-> [exception |-> r.exc]]]
    /\ BLACKLIST' = BlacklistAfter(script[t][ip[t]], BLACKLIST)
    /\ os_system' = [os_system EXCEPT ![t] = @ \/ script[t][ip[t]] = "import_hack"]
    /\ UNCHANGED << otherVars, ENABLE_CODE_EXECUTION, last_x, validation, sys_stdout, ncalls, script, stdout_capture,
                    old_stdout, outcome, response >>

\* exec returned: the result is collected and formatted (lines 136-183)
Format(t) ==
    /\ pc[t] = "exec"
    /\ ip[t] > Len(script[t])
    /\ LET output == streams[stdout_capture[t]]
           r == Collect(local_vars[t], output)
       IN  /\ local_vars' = [local_vars EXCEPT ![t] = r.kept]
           /\ pending' = [pending EXCEPT ![t] =
                 IF r.exc = "none"
                 THEN [kind |-> "return", value |-> r.value]
                 ELSE IF IsException(r.exc)
                 THEN [kind |-> "return", value |-> OuterErrorResponse(r.exc, output)]
                 ELSE [kind |-> "raise", value |-> [exception |-> r.exc]]]
    /\ pc' = [pc EXCEPT ![t] = "finally"]
    /\ UNCHANGED << otherVars, os_system, BLACKLIST, ENABLE_CODE_EXECUTION, last_x, validation, sys_stdout, streams, ncalls, script,
                    stdout_capture, old_stdout, ip, ran, outcome, response >>

\* sys.stdout restored before a return only, not when an exception leaves
FinallyOnReturnOnly(t) ==
    /\ pc[t] = "finally"
    /\ sys_stdout' = IF pending[t].kind = "return" THEN old_stdout[t] ELSE sys_stdout
    /\ outcome' = [outcome EXCEPT ![t] =
                      IF pending[t].kind = "return" THEN "returned" ELSE "raised"]
    /\ response' = [response EXCEPT ![t] = pending[t].value]
    /\ pending' = [pending EXCEPT ![t] = Null]
    /\ pc' = [pc EXCEPT ![t] = "done"]
    /\ UNCHANGED << otherVars, os_system, BLACKLIST, ENABLE_CODE_EXECUTION, last_x, validation, streams, ncalls, script, stdout_capture,
                    old_stdout, local_vars, ip, ran >>

\* finally: sys.stdout = old_stdout (line 185), then the call returns or
\* the exception leaves it
Finally(t) ==
    /\ pc[t] = "finally"
    /\ sys_stdout' = old_stdout[t]
    /\ outcome' = [outcome EXCEPT ![t] =
                      IF pending[t].kind = "return" THEN "returned" ELSE "raised"]
    /\ response' = [response EXCEPT ![t] = pending[t].value]
    /\ pending' = [pending EXCEPT ![t] = Null]
    /\ pc' = [pc EXCEPT ![t] = "done"]
    /\ UNCHANGED << otherVars, os_system, BLACKLIST, ENABLE_CODE_EXECUTION, last_x, validation, streams, ncalls, script, stdout_capture,
                    old_stdout, local_vars, ip, ran >>

\* the caller has taken the response; the call's objects are dropped, and
\* its StringIO with them unless sys.stdout or another call's old_stdout
\* still refers to it
Return(t) ==
    /\ pc[t] = "done"
    /\ LET c == stdout_capture[t]
       IN  streams' = IF /\ c # 0
                         /\ sys_stdout # c
                         /\ \A u \in Threads \ {t} : old_stdout[u] # c
                      THEN [streams EXCEPT ![c] = <<>>]
                      ELSE streams
    /\ pc' = [pc EXCEPT ![t] = "idle"]
    /\ script' = [script EXCEPT ![t] = <<>>]
    /\ stdout_capture' = [stdout_capture EXCEPT ![t] = 0]
    /\ old_stdout' = [old_stdout EXCEPT ![t] = 0]
    /\ local_vars' = [local_vars EXCEPT ![t] = NoVars]
    /\ ip' = [ip EXCEPT ![t] = 0]
    /\ ran' = [ran EXCEPT ![t] = 0]
    /\ outcome' = [outcome EXCEPT ![t] = "none"]
    /\ response' = [response EXCEPT ![t] = Null]
    /\ validation' = [validation EXCEPT ![t] = Null]
    /\ last_x' = IF stdout_capture[t] # 0
                 THEN "x" \in DOMAIN local_vars[t]
                 ELSE last_x
    /\ os_system' = [os_system EXCEPT ![t] = FALSE]
    /\ UNCHANGED << otherVars, BLACKLIST, ENABLE_CODE_EXECUTION, sys_stdout, ncalls,
                    pending >>

\* the caller hands the script of its call to validate_pandas_code
Validate(t) ==
    /\ pc[t] = "done"
    /\ validation[t] = Null
    /\ validation' = [validation EXCEPT ![t] =
                         validate_pandas_code(CodeOf(script[t]))]
    /\ UNCHANGED << otherVars, os_system, BLACKLIST, ENABLE_CODE_EXECUTION, last_x, sys_stdout,
                    streams, ncalls, pc, script, stdout_capture, old_stdout,
                    local_vars, ip, ran, pending, outcome, response >>

\* calls made one after the other by the main thread: a call starts when
\* the one before it has returned
CallSequential(t) ==
    /\ t = 1
    /\ \A u \in Threads : pc[u] = "idle"
    /\ \E sc \in Scripts : Call(t, sc)

\* the scripts of the concurrent specification
ConcStmts == {"print", "assign_result"}
ConcScripts == SeqsUpTo(ConcStmts, 1)

\* calls made by worker threads with no coordination
CallConcurrent(t) == \E sc \in ConcScripts : Call(t, sc)

Next ==
    \E t \in Threads :
        \/ CallSequential(t)
        \/ SaveStdout(t)
        \/ Redirect(t)
        \/ Compile(t)
        \/ Exec(t)
        \/ Format(t)
        \/ Finally(t)
        \/ Return(t)
        \/ Validate(t)

NextConc ==
    \E t \in Threads :
        \/ CallConcurrent(t)
        \/ SaveStdout(t)
        \/ Redirect(t)
        \/ Compile(t)
        \/ Exec(t)
        \/ Format(t)
        \/ Finally(t)
        \/ Return(t)
        \/ Validate(t)

Spec == Init /\ [][Next]_vars

\* sequential calls in a process started without PANDAS_MCP_BLACKLIST
SpecDefault == InitDefault /\ [][Next]_vars

SpecConc == InitDefault /\ [][NextConc]_vars

\* sequential calls, for every setting of the code-execution flag
SpecFlags == InitFlags /\ [][Next]_vars

\* ===================================================== the properties
\* ------------------------------------------------ shapes of the responses
Returned(t) == pc[t] = "done" /\ outcome[t] = "returned"

IsSecurity(r) ==
    /\ "error_type" \in DOMAIN r
    /\ r.error_type = "SECURITY_VIOLATION"

IsCompileError(r) ==
    /\ "error" \in DOMAIN r
    /\ r.error.message[1] = "Code error: "

IsSuccess(r) == "isError" \in DOMAIN r /\ r.isError = FALSE

\* an error response: the flag is set at the top level or inside "error"
IsError(r) ==
    \/ "isError" \in DOMAIN r /\ r.isError = TRUE
    \/ "error" \in DOMAIN r

\* the statements whose line holds a pattern of bl, for every list the
\* process can hold; no pattern holds a line break, so a pattern occurs in
\* the text of a script exactly when it occurs in one of its lines
ForbiddenStmts ==
    [ bl \in { get_env_list(v, DEFAULT_BLACKLIST) : v \in EnvValues } \cup { <<>> } |->
        { st \in Stmts : \E i \in 1..Len(bl) : Contains(bl[i], StmtText(st)) } ]

\* some configured pattern occurs in the text of the script
HasForbidden(sc) == \E i \in 1..Len(sc) : sc[i] \in ForbiddenStmts[BLACKLIST]

\* the numbers of the lines of the script that hold the pattern
LineNosOf(sc, pat) == { i \in 1..Len(sc) : Contains(pat, StmtText(sc[i])) }

ReportedLineNos(r) ==
    { r.details.locations[k].line : k \in 1..Len(r.details.locations) }

\* ---------------------------------------------------------------------- C1
\* C1: a call whose script contains a configured forbidden pattern never
\* gets past the scan; it returns a SECURITY_VIOLATION response whose
\* message names a configured pattern that occurs in the script and whose
\* locations are exactly the 1-indexed numbers of the lines holding it.
C1_ForbiddenRejected ==
    \A t \in Threads :
        (pc[t] # "idle" /\ HasForbidden(script[t])) =>
            /\ Returned(t)
            /\ IsSecurity(response[t])
            /\ response[t].isError = TRUE
            /\ LET p == response[t].details.forbidden_operation
               IN  /\ \E i \in 1..Len(BLACKLIST) : BLACKLIST[i] = p
                   /\ LineNosOf(script[t], p) # {}
                   /\ response[t].message = <<"Forbidden operation detected: ", p>>
                   /\ ReportedLineNos(response[t]) = LineNosOf(script[t], p)
                   /\ Len(response[t].details.locations)
                        = Cardinality(LineNosOf(script[t], p))

\* a rejection whose only violating line is line 2
C1_Witness ==
    \E t \in Threads :
        /\ Returned(t)
        /\ IsSecurity(response[t])
        /\ ReportedLineNos(response[t]) = {2}

\* ---------------------------------------------------------------------- C2
\* some line of the script is not a well-formed statement
Malformed(sc) == \E i \in 1..Len(sc) : sc[i] = "open_paren"

\* what the static checks of run_pandas_code reject
StaticallyBad(sc) == HasForbidden(sc) \/ Malformed(sc)

\* C2: a call rejected by a static check (forbidden pattern or syntax
\* error) has run no statement of its script, at any point of the call.
C2_RejectedBeforeExecution ==
    \A t \in Threads :
        /\ (pc[t] # "idle" /\ StaticallyBad(script[t])) => ran[t] = 0
        /\ (Returned(t) /\ (IsSecurity(response[t]) \/ IsCompileError(response[t])))
              => ran[t] = 0

\* a two-line script whose second line is malformed was rejected
C2_Witness ==
    \E t \in Threads :
        /\ Returned(t)
        /\ IsCompileError(response[t])
        /\ Len(script[t]) = 2
        /\ script[t][1] = "print"
        /\ script[t][2] = "open_paren"

\* ---------------------------------------------------------------------- C3
ImportOs == <<"i", "m", "p", "o", "r", "t", " ", "o", "s">>

C4_NothingEscapes ==
    \A t \in Threads :
        pc[t] = "done" => (outcome[t] = "returned" /\ "content" \in DOMAIN response[t])

\* ---------------------------------------------------------------------- C5
\* C5: every returned response has isError at the top level, and with it
\* either content (success) or a message (error).
C5_TwoShapes ==
    \A t \in Threads :
        Returned(t) =>
            /\ "isError" \in DOMAIN response[t]
            /\ \/ response[t].isError = FALSE /\ "content" \in DOMAIN response[t]
               \/ response[t].isError = TRUE /\ "message" \in DOMAIN response[t]

\* ---------------------------------------------------------------------- C6
\* core/error_handling.py ErrorType
ErrorType ==
    { "FILE_NOT_FOUND", "INVALID_FILE_PATH", "FILE_TOO_LARGE",
      "UNSUPPORTED_FILE_TYPE", "INVALID_COLUMN_NAMES", "INVALID_SHEET_NAME",
      "INVALID_CODE", "INVALID_INPUT", "SECURITY_VIOLATION",
      "CODE_EXECUTION_ERROR", "CODE_COMPILATION_ERROR", "DATA_ERROR",
      "TOOL_EXECUTION_ERROR", "FEATURE_DISABLED", "UNKNOWN_ERROR",
      "INTERNAL_ERROR" }

\* C6: every error response carries an error kind of the closed set.
C6_ErrorHasKind ==
    \A t \in Threads :
        (Returned(t) /\ IsError(response[t])) =>
            \/ "error_type" \in DOMAIN response[t]
                  /\ response[t].error_type \in ErrorType
            \/ "error" \in DOMAIN response[t]
                  /\ "error_type" \in DOMAIN response[t].error
                  /\ response[t].error.error_type \in ErrorType

\* ---------------------------------------------------------------------- C7
\* C7: with calls made one after the other, whenever no call is between its
\* entry and its exit, sys.stdout is the process's own stream, whichever way
\* the calls ended.
C7_StdoutRestored ==
    (\A t \in Threads : pc[t] \in {"idle", "done"}) => sys_stdout = 0

\* a second call has ended with SystemExit leaving it
C7_Witness ==
    \E t \in Threads :
        /\ pc[t] = "done"
        /\ outcome[t] = "raised"
        /\ ncalls = 2
        /\ sys_stdout = 0

\* ---------------------------------------------------------------------- C8
\* C8: with concurrent calls, once every call has returned sys.stdout is
\* the stream that was in place before any of them began.
C8_StdoutRestoredConcurrent ==
    (\A t \in Threads : pc[t] \in {"idle", "done"}) => sys_stdout = 0

\* ---------------------------------------------------------------------- C9
\* C9: whatever a call's buffer holds was written by that call's script.
C9_BufferOwned ==
    \A c \in 1..MaxCalls :
        \A k \in 1..Len(streams[c]) : streams[c][k] = c

\* --------------------------------------------------------------------- C10
ResultBinders ==
    {"assign_result", "assign_none", "bad_str", "df_big", "df_ceiling", "series",
     "assign_dict", "import_hack"}

BindsResult(sc) == \E i \in 1..Len(sc) : sc[i] \in ResultBinders

\* C10: a call whose script ran to its end without binding result returns
\* the missing-result error, never a success.
C10_MissingResult ==
    \A t \in Threads :
        (pc[t] = "done" /\ ip[t] > Len(script[t]) /\ ~BindsResult(script[t])) =>
            /\ outcome[t] = "returned"
            /\ ~IsSuccess(response[t])
            /\ response[t].isError = TRUE
            /\ response[t].message = "No 'result' variable found in code"

\* the script "x=1" has run and the call has returned
C10_Witness ==
    \E t \in Threads :
        /\ Returned(t)
        /\ script[t] = <<"assign_x">>
        /\ ran[t] = 1
        /\ response[t].isError = TRUE

\* --------------------------------------------------------------------- C11
\* the missing-result response of lines 146-151
IsMissingResult(r) ==
    DOMAIN r = {"content", "isError", "message", "output"}

\* the statement that made the last binding of result, "none" without one
RECURSIVE LastResultBinding(_)
LastResultBinding(sc) ==
    IF sc = <<>> THEN "none"
    ELSE IF sc[Len(sc)] \in ResultBinders
    THEN sc[Len(sc)]
    ELSE LastResultBinding(SubSeq(sc, 1, Len(sc) - 1))

\* C11: a script that ran to its end with result bound to None gets a
\* success response with empty content, and the missing-result error is
\* returned only to scripts that made no binding of result.
C11_NoneIsEmptySuccess ==
    \A t \in Threads :
        /\ (Returned(t) /\ IsMissingResult(response[t])) => ~BindsResult(script[t])
        /\ ( /\ pc[t] = "done"
             /\ ip[t] > Len(script[t])
             /\ LastResultBinding(script[t]) = "assign_none" ) =>
                /\ Returned(t)
                /\ IsSuccess(response[t])
                /\ response[t].content = <<>>

\* --------------------------------------------------------------------- C12
\* C12: every returned response carries the captured output, at the top
\* level or inside "error".
C12_OutputAlwaysReturned ==
    \A t \in Threads :
        Returned(t) =>
            \/ "output" \in DOMAIN response[t]
            \/ "error" \in DOMAIN response[t]
                  /\ "output" \in DOMAIN response[t].error

\* --------------------------------------------------------------------- C13
\* statements that bind or print and never raise
Quiet == {"assign_result", "assign_none", "print", "blank", "bad_str",
          "long_comment", "df_big", "df_ceiling", "series", "assign_dict",
          "clear_blacklist", "import_hack"}

\* the line at which the script reads x with nothing before it binding x
UnboundRead(sc) ==
    { i \in 1..Len(sc) :
        sc[i] = "read_x" /\ \A j \in 1..(i - 1) : sc[j] \in Quiet }

\* C13: whatever earlier calls bound, a script that passes the static checks
\* and reads x before binding it faults at that line with NameError, and a
\* running script sees only the seeded names and those it bound itself.
C13_FreshNamespace ==
    \A t \in Threads :
        /\ (pc[t] = "exec" /\ ip[t] = 1) => local_vars[t] = SeededVars
        /\ ( /\ pc[t] = "done"
             /\ ~StaticallyBad(script[t])
             /\ UnboundRead(script[t]) # {} ) =>
                /\ Returned(t)
                /\ "error" \in DOMAIN response[t]
                /\ response[t].error.traceback = "NameError"
                /\ ip[t] \in UnboundRead(script[t])

\* the call before this one ended with x bound; this one read x and faulted
C13_Witness ==
    \E t \in Threads :
        /\ last_x
        /\ Returned(t)
        /\ script[t] = <<"read_x">>
        /\ "error" \in DOMAIN response[t]
        /\ response[t].error.traceback = "NameError"

\* --------------------------------------------------------------------- C14
\* C14: with the code-execution flag off, every call returns a
\* FEATURE_DISABLED error without scanning or running the script.
C14_FeatureDisabled ==
    \A t \in Threads :
        (~ENABLE_CODE_EXECUTION /\ pc[t] # "idle") =>
            /\ Returned(t)
            /\ "error_type" \in DOMAIN response[t]
            /\ response[t].error_type = "FEATURE_DISABLED"
            /\ ran[t] = 0

\* --------------------------------------------------------------------- C15
Validated(t) == pc[t] = "done" /\ "valid" \in DOMAIN validation[t]

\* C15: a script that validate_pandas_code rejects (empty, too long or not
\* compilable) makes run_pandas_code return an error with none of its
\* statements run.
C15_FailsClosed ==
    \A t \in Threads :
        (Validated(t) /\ ~validation[t].valid) =>
            /\ Returned(t)
            /\ IsError(response[t])
            /\ ran[t] = 0

\* --------------------------------------------------------------------- C16
\* the script is empty or holds nothing but whitespace
OnlyWhitespace(sc) == \A i \in 1..Len(sc) : sc[i] = "blank"

\* C16: an empty or whitespace-only script is invalid for
\* validate_pandas_code and an error with a message for run_pandas_code.
C16_EmptyInputRejected ==
    \A t \in Threads :
        (Validated(t) /\ OnlyWhitespace(script[t])) =>
            /\ ~validation[t].valid
            /\ Returned(t)
            /\ "isError" \in DOMAIN response[t]
            /\ response[t].isError = TRUE
            /\ "message" \in DOMAIN response[t]

\* --------------------------------------------------------------------- C17
\* C17 as stated: a script both malformed and holding a forbidden pattern
\* is rejected for its syntax.
C17_Original ==
    \A t \in Threads :
        (pc[t] = "done" /\ Malformed(script[t]) /\ HasForbidden(script[t])) =>
            Returned(t) /\ IsCompileError(response[t])

\* C17 amended: the pattern scan runs before the syntax check, so a script
\* both malformed and holding a forbidden pattern is rejected as a security
\* violation and never reaches compile.
C17_ScanDecides ==
    \A t \in Threads :
        (pc[t] # "idle" /\ Malformed(script[t]) /\ HasForbidden(script[t])) =>
            /\ Returned(t)
            /\ IsSecurity(response[t])
            /\ ~IsCompileError(response[t])

\* a malformed first line, a forbidden pattern on the second
C17_Witness ==
    \E t \in Threads :
        /\ Returned(t)
        /\ script[t] = <<"open_paren", "os_attr">>
        /\ IsSecurity(response[t])

C19_FullPatternList ==
    \A t \in Threads :
        (Returned(t) /\ IsSecurity(response[t])) =>
            LET all == response[t].details.all_forbidden_operations
            IN  /\ Len(all) = Len(BLACKLIST)
                /\ \A i \in 1..Len(BLACKLIST) : all[i] = BLACKLIST[i]

\* the default list of 16 entries was returned with a rejection for "eval("
C19_Witness ==
    \E t \in Threads :
        /\ Returned(t)
        /\ IsSecurity(response[t])
        /\ Len(response[t].details.all_forbidden_operations) = 16
        /\ response[t].details.forbidden_operation = <<"e", "v", "a", "l", "(">>

\* --------------------------------------------------------------------- C20
\* the script ran to its end and left a DataFrame or Series in result
FinalFrame(t) ==
    /\ pc[t] = "done"
    /\ ip[t] > Len(script[t])
    /\ "result" \in DOMAIN local_vars[t]
    /\ (IsDataFrame(local_vars[t]["result"]) \/ IsSeries(local_vars[t]["result"]))

\* C20: a DataFrame or Series result above the ceiling is returned as a
\* success holding its first 100 rows, one at or below the ceiling as a
\* success holding all its rows.
C20_TruncatedAboveCeiling ==
    \A t \in Threads :
        FinalFrame(t) =>
            LET result == local_vars[t]["result"]
            IN  /\ Returned(t)
                /\ IsSuccess(response[t])
                /\ Len(response[t].content) = 1
                /\ response[t].content[1] =
                      to_dict(IF ValueBytes * RowsOf(result) + IndexBytes > MEMORY_CEILING
                              THEN HEAD_ROWS
                              ELSE RowsOf(result))

C22_BlacklistFixed == [][BLACKLIST' = BLACKLIST]_vars

\* --------------------------------------------------------------------- C23
\* C23: whatever PANDAS_MCP_BLACKLIST holds, the list loaded at startup is
\* not empty and holds every default pattern.
C23_DefaultsKept ==
    (ncalls = 0) =>
        /\ BLACKLIST # <<>>
        /\ \A i \in 1..Len(DEFAULT_BLACKLIST) :
              \E j \in 1..Len(BLACKLIST) : BLACKLIST[j] = DEFAULT_BLACKLIST[i]

\* --------------------------------------------------------------------- C24
\* the script reaches os.system through __import__('os')
UsesImportHack(sc) == \E i \in 1..Len(sc) : sc[i] = "import_hack"

\* C24: a call whose script reaches os.system through __import__('os')
\* never has the command run and returns an error response with a message.
C24_ImportHackStopped ==
    \A t \in Threads :
        UsesImportHack(script[t]) =>
            /\ ~os_system[t]
            /\ pc[t] = "done" =>
                  /\ Returned(t)
                  /\ "isError" \in DOMAIN response[t]
                  /\ response[t].isError = TRUE
                  /\ "message" \in DOMAIN response[t]

Truthy(v) ==
    CASE "null" \in DOMAIN v -> FALSE
      [] "str"  \in DOMAIN v -> v.str # ""
      [] "dict" \in DOMAIN v -> v.dict # {}
      [] "list" \in DOMAIN v -> v.list # <<>>

\* a call that ended with an exception leaving the function
Raised(exc) == [raised |-> exc]

\* create_error_response with "is not None" tests in place of "if details:"
create_error_response_not_none(error_type, message, details, traceback) ==
    LET base == [status |-> "ERROR", error_type |-> error_type, message |-> message]
        with_details == IF details # Null
                        THEN ("details" :> details) @@ base
                        ELSE base
    IN  IF traceback # Null
        THEN ("traceback" :> traceback) @@ with_details
        ELSE with_details

\* create_error_response (error_type stands for error_type.value)
create_error_response(error_type, message, details, traceback) ==
    LET base == [status |-> "ERROR", error_type |-> error_type, message |-> message]
        with_details == IF Truthy(details)
                        THEN ("details" :> details) @@ base
                        ELSE base
    IN  IF Truthy(traceback)
        THEN ("traceback" :> traceback) @@ with_details
        ELSE with_details

\* create_success_response
create_success_response(data, metadata) ==
    LET base == [status |-> "SUCCESS", data |-> data]
    IN  IF Truthy(metadata) THEN ("metadata" :> metadata) @@ base ELSE base

\* traceback.format_exc(): never an empty text
format_exc == [str |-> "Traceback (most recent call last)"]

\* handle_exception; error is [type |-> the class, str |-> str(error)]
handle_exception(error, error_type, context, include_traceback) ==
    LET error_message == IF Truthy(context)
                         THEN context.str \o ": " \o error.str
                         ELSE error.str
        response_ == create_error_response(error_type, error_message, Null, Null)
    IN  IF include_traceback
        THEN ("traceback" :> format_exc) @@ response_
        ELSE response_

\* attributes of a logging.Logger that are methods taking a message
LoggerMethods == {"debug", "info", "warning", "error", "critical", "exception"}

\* attributes of a logging.Logger that are data and cannot be called
LoggerData == {"name", "level", "parent", "handlers", "disabled"}

\* log_and_return_error: getattr(logger, level, logger.error) is called
\* with the message before the response is built
log_and_return_error(error_type, message, details, level) ==
    IF level \in LoggerData
    THEN Raised("TypeError")
    ELSE create_error_response(error_type, message, details, Null)

\* validate_response_format (every value here is a dict)
validate_response_format(response_) ==
    IF "status" \notin DOMAIN response_ THEN FALSE
    ELSE IF response_.status \notin {"SUCCESS", "ERROR"} THEN FALSE
    ELSE IF response_.status = "ERROR"
    THEN ~("error_type" \notin DOMAIN response_ \/ "message" \notin DOMAIN response_)
    ELSE "data" \in DOMAIN response_

\* ---- the arguments the builders are called with
OptionalDicts == { Null, [dict |-> {}], [dict |-> {"path"}] }
OptionalStrs == { Null, [str |-> ""], [str |-> "where"] }
Messages == { "", "boom" }
Levels == { "error", "warning", "verbose", "name" }
Errors == { [type |-> "ValueError", str |-> m] : m \in Messages }

BuilderCalls ==
    { [fn |-> "create_error_response", error_type |-> e, message |-> m,
       details |-> d, traceback |-> tb] :
         e \in ErrorType, m \in Messages, d \in OptionalDicts, tb \in OptionalStrs }
    \cup
    { [fn |-> "create_success_response", data |-> d, metadata |-> md] :
         d \in OptionalStrs \cup OptionalDicts, md \in OptionalDicts }
    \cup
    { [fn |-> "handle_exception", error |-> x, error_type |-> e, context |-> c,
       include_traceback |-> i] :
         x \in Errors, e \in ErrorType, c \in OptionalStrs, i \in BOOLEAN }
    \cup
    { [fn |-> "log_and_return_error", error_type |-> e, message |-> m,
       details |-> d, level |-> l] :
         e \in ErrorType, m \in Messages, d \in OptionalDicts, l \in Levels }

\* the run_pandas_code part of the process, at rest under the defaults
ExecAtRest ==
    /\ BLACKLIST = get_env_list(<<>>, DEFAULT_BLACKLIST)
    /\ ENABLE_CODE_EXECUTION = get_env_bool(<<>>, TRUE)
    /\ sys_stdout = 0
    /\ streams = [c \in 0..MaxCalls |-> <<>>]
    /\ ncalls = 0
    /\ IdleThreads

execVars == << BLACKLIST, sys_stdout, streams, ncalls, pc, script, stdout_capture,
               old_stdout, local_vars, ip, ran, pending, outcome, response,
               ENABLE_CODE_EXECUTION, validation, last_x, os_system >>

InitResponses ==
    /\ ExecAtRest
    /\ cli = Null
    /\ ENABLE_CHART_GENERATION = get_env_bool(<<>>, TRUE)
    /\ tool_args \in BuilderCalls
    /\ tool_result = Null

CreateErrorResponse ==
    /\ tool_result = Null
    /\ tool_args.fn = "create_error_response"
    /\ tool_result' = create_error_response(tool_args.error_type, tool_args.message,
                                            tool_args.details, tool_args.traceback)
    /\ UNCHANGED << execVars, ENABLE_CHART_GENERATION, cli, tool_args >>

CreateSuccessResponse ==
    /\ tool_result = Null
    /\ tool_args.fn = "create_success_response"
    /\ tool_result' = create_success_response(tool_args.data, tool_args.metadata)
    /\ UNCHANGED << execVars, ENABLE_CHART_GENERATION, cli, tool_args >>

HandleException ==
    /\ tool_result = Null
    /\ tool_args.fn = "handle_exception"
    /\ tool_result' = handle_exception(tool_args.error, tool_args.error_type,
                                       tool_args.context, tool_args.include_traceback)
    /\ UNCHANGED << execVars, ENABLE_CHART_GENERATION, cli, tool_args >>

LogAndReturnError ==
    /\ tool_result = Null
    /\ tool_args.fn = "log_and_return_error"
    /\ tool_result' = log_and_return_error(tool_args.error_type, tool_args.message,
                                           tool_args.details, tool_args.level)
    /\ UNCHANGED << execVars, ENABLE_CHART_GENERATION, cli, tool_args >>

NextResponses ==
    \/ CreateErrorResponse
    \/ CreateSuccessResponse
    \/ HandleException
    \/ LogAndReturnError

SpecResponses == InitResponses /\ [][NextResponses]_vars

\* --------------------------------------------------------------------- C26
\* a value other than None, "" and {} was supplied
NonEmpty(v) ==
    /\ "null" \notin DOMAIN v
    /\ "str" \in DOMAIN v => v.str # ""
    /\ "dict" \in DOMAIN v => v.dict # {}

\* the built response is valid for validate_response_format
Accepted(r) ==
    \/ r.status = "SUCCESS" /\ "data" \in DOMAIN r
    \/ r.status = "ERROR" /\ "error_type" \in DOMAIN r /\ "message" \in DOMAIN r

\* C26: every response a builder returns is accepted by
\* validate_response_format, and holds details, traceback or metadata exactly
\* when a non-empty value was supplied for it (handle_exception supplies the
\* traceback itself when include_traceback is set).
C26_BuiltResponsesValid ==
    ("status" \in DOMAIN tool_result) =>
        /\ validate_response_format(tool_result)
        /\ Accepted(tool_result)
        /\ LET a == tool_args
               has(k) == k \in DOMAIN tool_result
           IN  CASE a.fn = "create_error_response" ->
                       /\ has("details") <=> NonEmpty(a.details)
                       /\ has("traceback") <=> NonEmpty(a.traceback)
                       /\ ~has("metadata")
                 [] a.fn = "create_success_response" ->
                       /\ has("metadata") <=> NonEmpty(a.metadata)
                       /\ ~has("details") /\ ~has("traceback")
                 [] a.fn = "handle_exception" ->
                       /\ has("traceback") <=> a.include_traceback
                       /\ ~has("details") /\ ~has("metadata")
                 [] a.fn = "log_and_return_error" ->
                       /\ has("details") <=> NonEmpty(a.details)
                       /\ ~has("traceback") /\ ~has("metadata")

\* an error response was built from an empty details dict and a traceback
C26_Witness ==
    /\ "status" \in DOMAIN tool_result
    /\ tool_args.fn = "create_error_response"
    /\ tool_args.details = [dict |-> {}]
    /\ "traceback" \in DOMAIN tool_result
    /\ "details" \notin DOMAIN tool_result

\* ===================================================== validate_file_path
\* texts of extensions and of the names in the file system of the model
CSV_EXT == <<".", "c", "s", "v">>
DATA == <<"d", "a", "t", "a">>
D_XLS == <<"d", ".", "x", "l", "s">>
A_CSV == <<"a", ".", "c", "s", "v">>
B_TXT == <<"b", ".", "t", "x", "t">>
UPPER_CSV == <<"A", ".", "C", "S", "V">>
LOCKED_CSV == <<"l", "o", "c", "k", ".", "c", "s", "v">>
BIG_CSV == <<"b", "i", "g", ".", "c", "s", "v">>

ALLOWED_EXTENSIONS ==
    { CSV_EXT, <<".", "x", "l", "s", "x">>, <<".", "x", "l", "s">> }

MAX_PATH_LENGTH == 260

\* str.startswith
startswith(s, prefix) ==
    Len(s) >= Len(prefix) /\ SubSeq(s, 1, Len(prefix)) = prefix

RECURSIVE NormComps(_, _, _)
\* the loop of posixpath.normpath over the components left to read
NormComps(comps, new_comps, initial_slashes) ==
    IF comps = <<>> THEN new_comps
    ELSE LET comp == comps[1]
             rest == Tail(comps)
         IN  IF comp = <<>> \/ comp = <<".">>
             THEN NormComps(rest, new_comps, initial_slashes)
             ELSE IF \/ comp # <<".", ".">>
                     \/ (initial_slashes = 0 /\ new_comps = <<>>)
                     \/ (new_comps # <<>> /\ new_comps[Len(new_comps)] = <<".", ".">>)
             THEN NormComps(rest, Append(new_comps, comp), initial_slashes)
             ELSE IF new_comps # <<>>
             THEN NormComps(rest, SubSeq(new_comps, 1, Len(new_comps) - 1), initial_slashes)
             ELSE NormComps(rest, new_comps, initial_slashes)

\* os.path.normpath (posixpath)
normpath(path) ==
    IF path = <<>> THEN <<".">>
    ELSE LET initial_slashes ==
                 IF ~startswith(path, <<"/">>) THEN 0
                 ELSE IF startswith(path, <<"/", "/">>) /\ ~startswith(path, <<"/", "/", "/">>)
                 THEN 2
                 ELSE 1
             comps == NormComps(split(path, "/"), <<>>, initial_slashes)
             joined == join(comps, "/")
             result == IF initial_slashes = 0 THEN joined
                       ELSE IF initial_slashes = 1 THEN <<"/">> \o joined
                       ELSE <<"/", "/">> \o joined
         IN  IF result = <<>> THEN <<".">> ELSE result

\* str.rfind for one character: 0 stands for Python's -1, i for i - 1
rfind(s, c) ==
    IF \E i \in 1..Len(s) : s[i] = c
    THEN CHOOSE i \in 1..Len(s) : s[i] = c /\ \A j \in (i + 1)..Len(s) : s[j] # c
    ELSE 0

\* os.path.splitext(p)[1]: the text from the last dot of the last
\* component, unless only dots stand before it in that component
splitext_ext(p) ==
    LET sepIndex == rfind(p, "/")
        dotIndex == rfind(p, ".")
    IN  IF dotIndex > sepIndex /\ \E k \in (sepIndex + 1)..(dotIndex - 1) : p[k] # "."
        THEN SubSeq(p, dotIndex, Len(p))
        ELSE <<>>

\* the files os.path.isfile finds, by the components of their path from
\* the root ("/") or from the working directory
FileTree ==
    { <<A_CSV>>, <<B_TXT>>, <<DATA, A_CSV>>, <<<<"/">>, A_CSV>>,
      <<BIG_CSV>>, <<LOCKED_CSV>> }

\* the directories os.path.exists finds besides
DirTree ==
    { <<>>, <<DATA>>, <<D_XLS>>, <<<<"/">>>> }

\* the components a path leads through: "/" first for an absolute path,
\* no empty component and no "."
Resolve(path) ==
    LET comps == SelectSeq(split(path, "/"), LAMBDA c : c # <<>> /\ c # <<".">>)
    IN  IF startswith(path, <<"/">>) THEN << <<"/">> >> \o comps ELSE comps

\* os.path.isfile and os.path.exists for a normalized path
isfile(path) == Resolve(path) \in FileTree
exists(path) == Resolve(path) \in FileTree \cup DirTree

\* validate_file_path (file_path is always a str here)
validate_file_path(file_path) ==
    IF file_path = <<>>
    THEN [valid |-> FALSE, error |-> <<"File path cannot be empty">>]
    ELSE IF len(file_path) > MAX_PATH_LENGTH
    THEN [valid |-> FALSE, error |-> <<"File path exceeds maximum length">>]
    ELSE LET normalized_path == normpath(file_path)
             ext == splitext_ext(normalized_path)
         IN  IF \E i \in 1..Len(split(normalized_path, "/")) :
                    split(normalized_path, "/")[i] = <<".", ".">>
             THEN [valid |-> FALSE, error |-> <<"Path traversal is not allowed">>]
             ELSE IF lower(ext) \notin ALLOWED_EXTENSIONS
             THEN [valid |-> FALSE, error |-> <<"Unsupported file type: ", ext>>]
             ELSE IF ~exists(normalized_path)
             THEN [valid |-> FALSE, error |-> <<"File not found: ", normalized_path>>]
             ELSE IF ~isfile(normalized_path)
             THEN [valid |-> FALSE, error |-> <<"Path is not a file: ", normalized_path>>]
             ELSE [valid |-> TRUE]

\* ---- the paths validate_file_path is called with
MaxSegments == 3

Segments ==
    { <<>>, <<".">>, <<".", ".">>, DATA, D_XLS, A_CSV, B_TXT, UPPER_CSV,
      <<LongRun>> \o CSV_EXT }

Paths == { join(segs, "/") : segs \in SeqsUpTo(Segments, MaxSegments) }

InitPath ==
    /\ ExecAtRest
    /\ cli = Null
    /\ ENABLE_CHART_GENERATION = get_env_bool(<<>>, TRUE)
    /\ tool_args \in { [fn |-> "validate_file_path", file_path |-> p] : p \in Paths }
    /\ tool_result = Null

ValidateFilePath ==
    /\ tool_result = Null
    /\ tool_args.fn = "validate_file_path"
    /\ tool_result' = validate_file_path(tool_args.file_path)
    /\ UNCHANGED << execVars, ENABLE_CHART_GENERATION, cli, tool_args >>

NextPath == ValidateFilePath

SpecPath == InitPath /\ [][NextPath]_vars

\* --------------------------------------------------------------------- C27
\* some component of the path as given is ".."
HasTraversal(path) ==
    \E i \in 1..Len(split(path, "/")) : split(path, "/")[i] = <<".", ".">>

\* C27: validate_file_path returns valid for no path with a ".." component,
\* and only for paths with an allowed extension that lead to a regular file.
C27_TraversalRejected ==
    ("valid" \in DOMAIN tool_result) =>
        /\ HasTraversal(tool_args.file_path) => ~tool_result.valid
        /\ tool_result.valid =>
              /\ ~HasTraversal(tool_args.file_path)
              /\ lower(splitext_ext(normpath(tool_args.file_path))) \in ALLOWED_EXTENSIONS
              /\ isfile(normpath(tool_args.file_path))

\* ===================================================== interpret_column_data

\* MAX_FILE_SIZE under the default environment
MAX_FILE_SIZE == 100 * 1024 * 1024

\* os.path.getsize in bytes
getsize(path) ==
    IF Resolve(path) = <<BIG_CSV>> THEN MAX_FILE_SIZE + 1
    ELSE IF isfile(path) THEN 24
    ELSE 4096

\* the files open() refuses with PermissionError
Unreadable == { <<LOCKED_CSV>> }

\* pd.read_csv: the cells of every column of the file, None for a missing cell
read_csv(path) ==
    IF Resolve(path) = <<A_CSV>>
    THEN [Region |-> << [str |-> "N"], [str |-> "S"], [str |-> "S"] >>,
          Status |-> << [str |-> "A"], Null, [str |-> "B"] >>]
    ELSE [Region |-> << [str |-> "E"] >>]

\* Series.value_counts().to_dict().items() sorted by count, largest first:
\* the stable sort keeps values with equal counts in order of appearance
value_counts_sorted(series) ==
    LET firsts == { i \in 1..Len(series) :
                       /\ series[i] # Null
                       /\ \A j \in 1..(i - 1) : series[j] # series[i] }
        count(i) == Cardinality({ j \in 1..Len(series) : series[j] = series[i] })
        before(i, j) == count(i) > count(j) \/ (count(i) = count(j) /\ i < j)
        order == CHOOSE s \in [1..Cardinality(firsts) -> firsts] :
                     \A a, b \in 1..Cardinality(firsts) : a < b => before(s[a], s[b])
    IN  [k \in 1..Cardinality(firsts) |-> << series[order[k]], count(order[k]) >>]

\* _interpret_single_column (every column of the files here holds text)
_interpret_single_column(series) ==
    [data_type |-> "string",
     total_values |-> Len(series),
     null_count |-> Cardinality({ i \in 1..Len(series) : series[i] = Null }),
     unique_count |-> Len(value_counts_sorted(series)),
     unique_values_with_counts |-> value_counts_sorted(series)]

\* the body of interpret_column_values; size and the sizes in the
\* FILE_TOO_LARGE response stand for their formatted texts
interpret_column_values(file_path, column_names) ==
    IF ~exists(file_path)
    THEN [status |-> "ERROR", error |-> "FILE_NOT_FOUND", path |-> file_path]
    ELSE IF getsize(file_path) > MAX_FILE_SIZE
    THEN [status |-> "ERROR", error |-> "FILE_TOO_LARGE",
          max_size |-> MAX_FILE_SIZE, actual_size |-> getsize(file_path)]
    ELSE IF lower(splitext_ext(file_path)) = CSV_EXT
    THEN IF Resolve(file_path) \in Unreadable
         THEN [status |-> "ERROR", error_type |-> "PermissionError",
               message |-> "Permission denied"]
         ELSE LET df == read_csv(file_path)
              IN  [status |-> "SUCCESS",
                   file_info |-> [type |-> "csv", size |-> getsize(file_path),
                                  encoding |-> "ascii",
                                  total_rows |-> Len(df.Region),
                                  total_columns |-> Cardinality(DOMAIN df)],
                   columns_interpretation |->
                       [i \in 1..Len(column_names) |->
                           IF column_names[i] \notin DOMAIN df
                           THEN [column_name |-> column_names[i],
                                 error |-> "Column '" \o column_names[i]
                                               \o "' not found in file"]
                           ELSE ("column_name" :> column_names[i])
                                    @@ _interpret_single_column(df[column_names[i]])]]
    ELSE [status |-> "ERROR", error |-> "UNSUPPORTED_FILE_TYPE",
          message |-> <<"Only CSV files are supported. File type ",
                        lower(splitext_ext(file_path)), " is not supported.">>]

\* the parameters of interpret_column_values
interpret_column_values_params == <<"file_path", "column_names">>

\* a call of interpret_column_values with positional arguments: Python
\* binds them to the parameters and raises TypeError when the numbers differ
call_interpret_column_values(args) ==
    IF Len(args) > Len(interpret_column_values_params)
    THEN Raised([type |-> "TypeError",
                 str |-> "interpret_column_values() takes 2 positional arguments but 3 were given"])
    ELSE IF Len(args) < Len(interpret_column_values_params)
    THEN Raised([type |-> "TypeError",
                 str |-> "interpret_column_values() missing required positional arguments"])
    ELSE interpret_column_values(args[1], args[2])

\* the interpret_column_data tool
interpret_column_data(file_path, column_names, sheet_name) ==
    LET result == call_interpret_column_values(<<file_path, column_names, sheet_name>>)
    IN  IF "raised" \in DOMAIN result
        THEN handle_exception(result.raised, "TOOL_EXECUTION_ERROR",
                              [str |-> "interpret_column_data failed"], TRUE)
        ELSE result

\* ---- the arguments the tool is called with
MaxColumns == 2

ColumnNames == { "Region", "Status", "Missing" }

DataFiles == { A_CSV, join(<<DATA, A_CSV>>, "/"), B_TXT, BIG_CSV, LOCKED_CSV,
               UPPER_CSV, D_XLS }

SheetNames == { [int |-> 0], [str |-> "Sheet1"] }

InitColumns ==
    /\ ExecAtRest
    /\ cli = Null
    /\ ENABLE_CHART_GENERATION = get_env_bool(<<>>, TRUE)
    /\ tool_args \in { [fn |-> "interpret_column_data", file_path |-> p,
                        column_names |-> cs, sheet_name |-> sh] :
                          p \in DataFiles, cs \in SeqsUpTo(ColumnNames, MaxColumns),
                          sh \in SheetNames }
    /\ tool_result = Null

InterpretColumnData ==
    /\ tool_result = Null
    /\ tool_args.fn = "interpret_column_data"
    /\ tool_result' = interpret_column_data(tool_args.file_path, tool_args.column_names,
                                            tool_args.sheet_name)
    /\ UNCHANGED << execVars, ENABLE_CHART_GENERATION, cli, tool_args >>

NextColumns == InterpretColumnData

SpecColumns == InitColumns /\ [][NextColumns]_vars

\* --------------------------------------------------------------------- C28
\* C28: for an existing CSV file within the size limit the tool returns
\* SUCCESS with one entry per requested column name, in request order, and
\* an entry with an error for each requested column the file does not have.
C28_EntryPerColumn ==
    LET a == tool_args
        r == tool_result
    IN  ( /\ a.fn = "interpret_column_data"
          /\ r # Null
          /\ isfile(a.file_path)
          /\ Resolve(a.file_path) \notin Unreadable
          /\ getsize(a.file_path) <= MAX_FILE_SIZE
          /\ lower(splitext_ext(a.file_path)) = CSV_EXT ) =>
            /\ r.status = "SUCCESS"
            /\ "columns_interpretation" \in DOMAIN r
            /\ Len(r.columns_interpretation) = Len(a.column_names)
            /\ \A i \in 1..Len(a.column_names) :
                  /\ r.columns_interpretation[i].column_name = a.column_names[i]
                  /\ ("error" \in DOMAIN r.columns_interpretation[i])
                        <=> (a.column_names[i] \notin DOMAIN read_csv(a.file_path))

\* ========================================================== generate_chartjs
\* whether float(s) returns for a text of signs, digits, dots and letters
\* (it raises ValueError otherwise)
IsFloatText(s) ==
    LET body == IF s # <<>> /\ s[1] \in { "+", "-" } THEN Tail(s) ELSE s
        Digits == { "0", "1", "2", "3", "4", "5", "6", "7", "8", "9" }
    IN  /\ \E i \in 1..Len(body) : body[i] \in Digits
        /\ \A i \in 1..Len(body) : body[i] \in Digits \cup { "." }
        /\ Cardinality({ i \in 1..Len(body) : body[i] = "." }) <= 1

\* the parsing of request_params into options (visualization.py 36-43):
\* a request_params dict is [dict |-> its keys, get |-> its values]; the
\* text of the ValueError stands without the quoted value that follows it
parse_request_params(request_params) ==
    IF ~Truthy(request_params) THEN [options |-> <<>>]
    ELSE LET has(k) == k \in request_params.dict
             yaxis == request_params.get.yaxis_min
             width == request_params.get.bar_width
         IN  IF has("yaxis_min") /\ Len(yaxis) = 0
             THEN Raised([type |-> "IndexError", str |-> "list index out of range"])
             ELSE IF has("yaxis_min") /\ ~IsFloatText(yaxis[1])
             THEN Raised([type |-> "ValueError",
                          str |-> "could not convert string to float"])
             ELSE IF has("bar_width") /\ Len(width) = 0
             THEN Raised([type |-> "IndexError", str |-> "list index out of range"])
             ELSE [options |->
                     (IF has("yaxis_min")
                      THEN "yaxis_min" :> [float |-> yaxis[1]] ELSE <<>>)
                     @@ (IF has("bar_width")
                         THEN "bar_width" :> (width[1] \o <<"%">>) ELSE <<>>)
                     @@ (IF has("disabled_categories")
                         THEN "disabled_categories" :> request_params.get.disabled_categories
                         ELSE <<>>)]

\* the chart types that have a generator class
ChartGenerators == { "bar", "pie", "line" }

\* generator.generate(data, **options): it raises, or returns the response
\* the tool documents (server.py 252-258)
generate(generator, options, generation) ==
    IF generation = "raises"
    THEN Raised([type |-> "Exception", str |-> "render failed"])
    ELSE [status |-> "SUCCESS", chart_type |-> generator,
          chart_html |-> options, html_path |-> "chart.html"]

\* generate_chartjs with the chart type tested before request_params is parsed
generate_chartjs_type_first(data, chart_types, title, request_params, generation) ==
    IF ~ENABLE_CHART_GENERATION
    THEN log_and_return_error("FEATURE_DISABLED",
             "Chart generation is disabled. Set PANDAS_MCP_ENABLE_CHART_GENERATION=true to enable.",
             Null, "error")
    ELSE IF ~("dict" \in DOMAIN data /\ "columns" \in data.dict)
    THEN log_and_return_error("INVALID_INPUT",
             "Invalid data format: expected dict with 'columns' key", Null, "error")
    ELSE IF ~Truthy(chart_types)
    THEN log_and_return_error("INVALID_INPUT", "Must specify chart types", Null, "error")
    ELSE IF chart_types.list[1] \notin ChartGenerators
    THEN log_and_return_error("INVALID_INPUT",
             "Invalid chart type '" \o chart_types.list[1]
                 \o "'. Must be one of: bar, pie, line", Null, "error")
    ELSE LET parsed == parse_request_params(request_params)
             context == [str |-> "Failed to generate chart visualization"]
         IN  IF "raised" \in DOMAIN parsed
             THEN handle_exception(parsed.raised, "TOOL_EXECUTION_ERROR", context, TRUE)
             ELSE LET options == ("title" :> (IF Truthy(title) THEN title.str ELSE "Chart"))
                                    @@ parsed.options
                      result == generate(chart_types.list[1], options, generation)
                  IN  IF "raised" \in DOMAIN result
                      THEN handle_exception(result.raised, "TOOL_EXECUTION_ERROR",
                                            context, TRUE)
                      ELSE result

\* generate_chartjs; generation is what generator.generate does when it is called
generate_chartjs(data, chart_types, title, request_params, generation) ==
    IF ~ENABLE_CHART_GENERATION
    THEN log_and_return_error("FEATURE_DISABLED",
             "Chart generation is disabled. Set PANDAS_MCP_ENABLE_CHART_GENERATION=true to enable.",
             Null, "error")
    ELSE IF ~("dict" \in DOMAIN data /\ "columns" \in data.dict)
    THEN log_and_return_error("INVALID_INPUT",
             "Invalid data format: expected dict with 'columns' key", Null, "error")
    ELSE IF ~Truthy(chart_types)
    THEN log_and_return_error("INVALID_INPUT", "Must specify chart types", Null, "error")
    ELSE LET parsed == parse_request_params(request_params)
             context == [str |-> "Failed to generate chart visualization"]
         IN  IF "raised" \in DOMAIN parsed
             THEN handle_exception(parsed.raised, "TOOL_EXECUTION_ERROR", context, TRUE)
             ELSE IF chart_types.list[1] \notin ChartGenerators
             THEN log_and_return_error("INVALID_INPUT",
                      "Invalid chart type '" \o chart_types.list[1]
                          \o "'. Must be one of: bar, pie, line", Null, "error")
             ELSE LET options == ("title" :> (IF Truthy(title) THEN title.str ELSE "Chart"))
                                    @@ parsed.options
                      result == generate(chart_types.list[1], options, generation)
                  IN  IF "raised" \in DOMAIN result
                      THEN handle_exception(result.raised, "TOOL_EXECUTION_ERROR",
                                            context, TRUE)
                      ELSE result

\* ---- the arguments generate_chartjs is called with
MaxChartTypes == 2

ChartData ==
    { Null, [str |-> "invalid data"], [dict |-> {"labels"}],
      [dict |-> {"columns"}] }

ChartTypeLists ==
    { Null } \cup { [list |-> l] :
                       l \in SeqsUpTo({ "bar", "pie", "line", "radar" }, MaxChartTypes) }

Titles == { [str |-> ""], [str |-> "Sales"] }

RequestParams ==
    { Null, [dict |-> {}, get |-> <<>>] }
    \cup { [dict |-> {"yaxis_min"}, get |-> [yaxis_min |-> y]] :
             y \in { << <<"0">> >>, << <<"-", "1", ".", "5">> >>,
                     << <<"a", "b", "c">> >>, <<>> } }
    \cup { [dict |-> {"bar_width"}, get |-> [bar_width |-> w]] :
             w \in { << <<"5", "0">> >>, <<>> } }
    \cup { [dict |-> {"yaxis_min", "bar_width", "disabled_categories"},
            get |-> [yaxis_min |-> << <<"a", "b", "c">> >>, bar_width |-> <<>>,
                     disabled_categories |-> <<"A">>]],
           [dict |-> {"disabled_categories"},
            get |-> [disabled_categories |-> <<"A">>]] }

GenerateOutcomes == { "returns", "raises" }

InitChart ==
    /\ ExecAtRest
    /\ cli = Null
    /\ ENABLE_CHART_GENERATION \in { get_env_bool(v, TRUE) : v \in FlagEnvValues }
    /\ tool_args \in { [fn |-> "generate_chartjs", data |-> d, chart_types |-> c,
                        title |-> t, request_params |-> rp, outcome |-> o] :
                          d \in ChartData, c \in ChartTypeLists, t \in Titles,
                          rp \in RequestParams, o \in GenerateOutcomes }
    /\ tool_result = Null

GenerateChartjs ==
    /\ tool_result = Null
    /\ tool_args.fn = "generate_chartjs"
    /\ tool_result' = generate_chartjs(tool_args.data, tool_args.chart_types,
                                       tool_args.title, tool_args.request_params,
                                       tool_args.outcome)
    /\ UNCHANGED << execVars, ENABLE_CHART_GENERATION, cli, tool_args >>

NextChart == GenerateChartjs

SpecChart == InitChart /\ [][NextChart]_vars

\* --------------------------------------------------------------------- C29
\* the call got past the data test and the chart_types test
PastInputTests ==
    /\ ENABLE_CHART_GENERATION
    /\ "dict" \in DOMAIN tool_args.data /\ "columns" \in tool_args.data.dict
    /\ Truthy(tool_args.chart_types)

\* the response is an error of the kind
ErrorOfKind(kind) ==
    /\ tool_result.status = "ERROR"
    /\ tool_result.error_type = kind

\* what the claim holds of every call, whatever request_params is
ChecksBeforeParams ==
    /\ "status" \in DOMAIN tool_result
    /\ ~ENABLE_CHART_GENERATION => ErrorOfKind("FEATURE_DISABLED")
    /\ ( /\ ENABLE_CHART_GENERATION
         /\ ~("dict" \in DOMAIN tool_args.data /\ "columns" \in tool_args.data.dict) )
          => /\ ErrorOfKind("INVALID_INPUT")
             /\ tool_result.message = "Invalid data format: expected dict with 'columns' key"
    /\ ( /\ ENABLE_CHART_GENERATION
         /\ "dict" \in DOMAIN tool_args.data /\ "columns" \in tool_args.data.dict
         /\ ~Truthy(tool_args.chart_types) )
          => /\ ErrorOfKind("INVALID_INPUT")
             /\ tool_result.message = "Must specify chart types"
    /\ PastInputTests =>
          /\ tool_result = generate_chartjs(tool_args.data,
                               [list |-> <<tool_args.chart_types.list[1]>>],
                               tool_args.title, tool_args.request_params,
                               tool_args.outcome)
          /\ ( /\ "raised" \notin DOMAIN parse_request_params(tool_args.request_params)
               /\ tool_args.chart_types.list[1] \in ChartGenerators )
                => IF tool_args.outcome = "raises"
                   THEN ErrorOfKind("TOOL_EXECUTION_ERROR")
                   ELSE /\ tool_result.status = "SUCCESS"
                        /\ tool_result.chart_type = tool_args.chart_types.list[1]

\* C29 as stated: generate_chartjs never raises; disabled gives
\* FEATURE_DISABLED for every input, then bad data, then missing or empty
\* chart_types, then a first chart type outside bar, pie, line give
\* INVALID_INPUT; only the first chart type is used.
C29_Original ==
    (tool_args.fn = "generate_chartjs" /\ tool_result # Null) =>
        /\ ChecksBeforeParams
        /\ ( PastInputTests /\ tool_args.chart_types.list[1] \notin ChartGenerators )
              => ErrorOfKind("INVALID_INPUT")

\* C29: as above, but a first chart type outside bar, pie, line gives
\* INVALID_INPUT only when request_params was parsed without an exception;
\* when the parsing raises, the response is a TOOL_EXECUTION_ERROR whatever
\* the chart type is.
C29_CheckOrder ==
    (tool_args.fn = "generate_chartjs" /\ tool_result # Null) =>
        /\ ChecksBeforeParams
        /\ PastInputTests =>
              IF "raised" \in DOMAIN parse_request_params(tool_args.request_params)
              THEN ErrorOfKind("TOOL_EXECUTION_ERROR")
              ELSE tool_args.chart_types.list[1] \notin ChartGenerators
                      => ErrorOfKind("INVALID_INPUT")

\* a call with an unknown chart type and a yaxis_min that is no number has
\* come back as a TOOL_EXECUTION_ERROR
C29_Witness ==
    /\ tool_args.fn = "generate_chartjs"
    /\ tool_result # Null
    /\ PastInputTests
    /\ tool_args.chart_types.list[1] = "radar"
    /\ "raised" \in DOMAIN parse_request_params(tool_args.request_params)
    /\ "yaxis_min" \in tool_args.request_params.dict
    /\ tool_result.error_type = "TOOL_EXECUTION_ERROR"

\* ================================================================= cli.py
\* sys.exit(code): the SystemExit it raises
SystemExit(code) == Raised([type |-> "SystemExit", code |-> code])

\* whether "except Exception" catches an exception of the class
IsExceptionSubclass(type) ==
    type \notin { "SystemExit", "KeyboardInterrupt", "GeneratorExit" }

\* the end of each wrapper's except clause: the message goes to stderr and
\* sys.exit(1) is called
print_and_exit(error, error_type, context) ==
    [stderr |-> << "Error: " \o handle_exception(error, error_type,
                                                 [str |-> context], TRUE).message >>]
        @@ SystemExit(1)

\* a wrapper that got to its end
Done == [stderr |-> <<>>]

\* read_metadata_cli: read is what read_metadata does ("returns" a dict,
\* of status SUCCESS or ERROR, or "raises"), emit what becomes of writing
\* the result to the output file or the console ("ok" or "fails")
read_metadata_cli(read, emit) ==
    IF read = "raises"
    THEN print_and_exit([type |-> "Exception", str |-> "cannot read file"],
                        "TOOL_EXECUTION_ERROR", "read_metadata_cli failed")
    ELSE IF emit = "fails"
    THEN print_and_exit([type |-> "PermissionError", str |-> "Permission denied"],
                        "TOOL_EXECUTION_ERROR", "read_metadata_cli failed")
    ELSE Done

\* run_pandas_code_cli: the script file is "missing" or "readable", run is
\* what run_pandas_code does with its text ("returns" a response or "raises")
run_pandas_code_cli(script_file, run, emit) ==
    IF script_file = "missing"
    THEN print_and_exit([type |-> "FileNotFoundError",
                         str |-> "Script file not found: script.py"],
                        "FILE_NOT_FOUND", "run_pandas_code_cli failed")
    ELSE IF run = "raises"
    THEN print_and_exit([type |-> "AttributeError", str |-> "exec failed"],
                        "TOOL_EXECUTION_ERROR", "run_pandas_code_cli failed")
    ELSE IF emit = "fails"
    THEN print_and_exit([type |-> "PermissionError", str |-> "Permission denied"],
                        "TOOL_EXECUTION_ERROR", "run_pandas_code_cli failed")
    ELSE Done

\* generate_chart_cli: the data file is "missing", "not_json" or "readable";
\* generate_chartjs returns a response for every input
generate_chart_cli(data_file, emit) ==
    IF data_file = "missing"
    THEN print_and_exit([type |-> "FileNotFoundError",
                         str |-> "Data file not found: data.json"],
                        "FILE_NOT_FOUND", "generate_chart_cli failed")
    ELSE IF data_file = "not_json"
    THEN print_and_exit([type |-> "JSONDecodeError", str |-> "Expecting value"],
                        "TOOL_EXECUTION_ERROR", "generate_chart_cli failed")
    ELSE IF emit = "fails"
    THEN print_and_exit([type |-> "PermissionError", str |-> "Permission denied"],
                        "TOOL_EXECUTION_ERROR", "generate_chart_cli failed")
    ELSE Done

\* one turn of the loop of interactive_mode after the wrapper was called
\* inside "try ... except Exception": an exception of another kind leaves
\* interactive_mode and main, and ends the process with its exit code
AfterCall(choice, result, context) ==
    LET choices == Append(cli.choices, choice)
        stderr == cli.stderr \o result.stderr
    IN  IF "raised" \notin DOMAIN result
        THEN [pc |-> "menu", choices |-> choices, stderr |-> stderr, exit_code |-> 0]
        ELSE IF IsExceptionSubclass(result.raised.type)
        THEN [pc |-> "menu", choices |-> choices, exit_code |-> 0,
              stderr |-> Append(stderr, "Error: " \o context)]
        ELSE [pc |-> "exited", choices |-> choices, stderr |-> stderr,
              exit_code |-> result.raised.code]

\* a turn that calls no wrapper
BackToMenu(choice) ==
    [cli EXCEPT !.choices = Append(@, choice)]

\* ---- the sittings at the menu
MaxTurns == 3

ReadOutcomes == { "returns", "raises" }
RunOutcomes == { "returns", "raises" }
EmitOutcomes == { "ok", "fails" }
ScriptFiles == { "missing", "readable" }
DataFilesJson == { "missing", "not_json", "readable" }
ChartTypeInputs == { "", "bar", "line", "pie", "radar" }
OtherChoices == { "", "5", "exit" }

\* python cli.py without arguments: main calls interactive_mode
InitCli ==
    /\ ExecAtRest
    /\ ENABLE_CHART_GENERATION = get_env_bool(<<>>, TRUE)
    /\ tool_args = Null
    /\ tool_result = Null
    /\ cli = [pc |-> "menu", choices |-> <<>>, stderr |-> <<>>, exit_code |-> 0]

AtMenu ==
    /\ cli # Null
    /\ cli.pc = "menu"
    /\ Len(cli.choices) < MaxTurns

\* choice "1"
ChooseMetadata ==
    /\ AtMenu
    /\ \E read \in ReadOutcomes, emit \in EmitOutcomes :
          cli' = AfterCall("1", read_metadata_cli(read, emit),
                           "Interactive metadata read failed")
    /\ UNCHANGED << execVars, ENABLE_CHART_GENERATION, tool_args, tool_result >>

\* choice "2"
ChooseExecute ==
    /\ AtMenu
    /\ \E script_file \in ScriptFiles, run \in RunOutcomes, emit \in EmitOutcomes :
          cli' = AfterCall("2", run_pandas_code_cli(script_file, run, emit),
                           "Interactive code execution failed")
    /\ UNCHANGED << execVars, ENABLE_CHART_GENERATION, tool_args, tool_result >>

\* choice "3": an empty chart type stands for "bar", another one than
\* bar, line, pie is refused and the loop continues
ChooseChart ==
    /\ AtMenu
    /\ \E typed \in ChartTypeInputs, data_file \in DataFilesJson, emit \in EmitOutcomes :
          LET chart_type == IF typed = "" THEN "bar" ELSE typed
          IN  cli' = IF chart_type \notin { "bar", "line", "pie" }
                     THEN BackToMenu("3")
                     ELSE AfterCall("3", generate_chart_cli(data_file, emit),
                                    "Interactive chart generation failed")
    /\ UNCHANGED << execVars, ENABLE_CHART_GENERATION, tool_args, tool_result >>

\* choice "4": the loop breaks, interactive_mode and main return
ChooseExit ==
    /\ AtMenu
    /\ cli' = [cli EXCEPT !.pc = "exited", !.choices = Append(@, "4")]
    /\ UNCHANGED << execVars, ENABLE_CHART_GENERATION, tool_args, tool_result >>

\* any other line
ChooseOther ==
    /\ AtMenu
    /\ \E choice \in OtherChoices : cli' = BackToMenu(choice)
    /\ UNCHANGED << execVars, ENABLE_CHART_GENERATION, tool_args, tool_result >>

NextCli ==
    \/ ChooseMetadata
    \/ ChooseExecute
    \/ ChooseChart
    \/ ChooseExit
    \/ ChooseOther

SpecCli == InitCli /\ [][NextCli]_vars

\* --------------------------------------------------------------------- C30
\* C30: in interactive mode the process has exited only when the last
\* choice entered was 4; after a failed operation it is back at the menu.
C30_ExitsOnlyOnChoice4 ==
    (cli # Null /\ cli.pc = "exited") =>
        cli.choices[Len(cli.choices)] = "4"

====
